---- MODULE Spec2Model ----
(***************************************************************************)
(* A model of the credential resolver (src/src/htan/config.py), the SQL    *)
(* helpers, the transport and the portal client                            *)
(* (src/src/htan/query/portal.py) and the download validators              *)
(* (src/src/htan/download/*.py) of htan-claude.                            *)
(*                                                                         *)
(* Python values are records; a call either returns a value or raises an   *)
(* exception, and an Outcome records which.  Texts are sequences of atoms: *)
(* an atom is a run of characters written as one TLA+ string, chosen so    *)
(* that no atom is a concatenation of pieces of the others.                *)
(***************************************************************************)
EXTENDS Integers, Sequences, FiniteSets, TLC

VARIABLES
    environ,      \* os.environ["HTAN_PORTAL_CREDENTIALS"]
    system,       \* platform.system()
    keychain,     \* what the keychain tool does when it is run
    configFile,   \* ~/.config/htan-skill/portal.json
    input,        \* the argument of the function under study
    client,       \* a PortalClient: its _config and _database fields
    effects,      \* the external effects of the last call, in order
    call,         \* the last call: its name, argument and outcome
    disk,         \* the file an operation writes: a download, a cache
    pc            \* where a call that is modelled step by step stands

\* What the single-step operations leave alone.
world == <<environ, system, keychain, configFile, disk, pc>>

vars ==
    <<environ, system, keychain, configFile, input, client, effects, call,
      disk, pc>>

---------------------------------------------------------------------------
(* Bounds of the model *)

MaxCredId == 2

---------------------------------------------------------------------------
(* Python values and outcomes *)

REQUIRED_KEYS == {"host", "port", "user", "password"}

\* json.loads("null") is Python's None.
None == [type |-> "None", keys |-> {}, id |-> 0]

Return(v) == [kind |-> "return", value |-> v, exc |-> "", tier |-> ""]

Raise(e) == [kind |-> "raise", value |-> None, exc |-> e, tier |-> ""]

\* raise e(message)
RaiseWith(e, message) ==
    [kind |-> "raise", value |-> message, exc |-> e, tier |-> ""]

\* A Python str with its text.
Str(text) == [type |-> "str", keys |-> {}, id |-> 0, text |-> text]

\* True, False
Bool(b) == [type |-> "bool", keys |-> {}, id |-> IF b THEN 1 ELSE 0]

\* try: o  except <caught>: handler
Except(o, caught, handler) ==
    IF o.kind = "raise" /\ o.exc \in caught THEN handler ELSE o

OSErrors == {"OSError", "FileNotFoundError", "PermissionError", "IsADirectoryError"}

\* The sets of required keys a JSON object of the model carries: all four,
\* all but one, none.
ObjectKeySets ==
    {REQUIRED_KEYS} \cup {REQUIRED_KEYS \ {k} : k \in REQUIRED_KEYS} \cup {{}}

\* keys: for an object its keys, for an array the required-key strings among
\* its elements, for a string the required-key names it has as substrings.
\* id tells apart two objects with different values.
JsonValues ==
    {None, [type |-> "number", keys |-> {}, id |-> 0],
           [type |-> "bool", keys |-> {}, id |-> 0]}
    \cup [type : {"str", "list"}, keys : {REQUIRED_KEYS, {"host"}}, id : {0}]
    \cup [type : {"dict"}, keys : ObjectKeySets, id : 1..MaxCredId]

NoText == [kind |-> "unset", v |-> None]

\* A text that may hold JSON: empty, not JSON, bytes that are not UTF-8, or
\* the JSON text of a value.
Texts ==
    [kind : {"empty", "notjson", "notutf8"}, v : {None}]
    \cup [kind : {"json"}, v : JsonValues]

\* json.loads / json.load on a decoded text
json_loads(raw) ==
    IF raw.kind = "json" THEN Return(raw.v) ELSE Raise("JSONDecodeError")

\* k in cfg, for a required key k: membership in a dict, list or str; a
\* TypeError for None, a number or a bool.
validate_config(cfg) ==
    IF cfg.type \in {"dict", "list", "str"}
    THEN Return(REQUIRED_KEYS \ cfg.keys)
    ELSE Raise("TypeError")

\* cfg = parse(); if _validate_config(cfg): return None; return cfg
ParseAndValidate(parsed) ==
    IF parsed.kind = "raise" THEN parsed
    ELSE LET missing == validate_config(parsed.value) IN
         IF missing.kind = "raise" THEN missing
         ELSE IF missing.value # {} THEN Return(None)
         ELSE Return(parsed.value)

load_from_env(raw) ==
    IF raw.kind \in {"unset", "empty"} THEN Return(None)
    ELSE Except(ParseAndValidate(json_loads(raw)),
                {"JSONDecodeError", "TypeError"}, Return(None))

Systems == {"Darwin", "Linux", "Windows"}

\* run: how subprocess.run ends; stdout: what the tool printed.
KeychainStates ==
    [run : {"nonzero", "TimeoutExpired", "FileNotFoundError", "OSError"},
     stdout : {NoText}]
    \cup [run : {"ok"}, stdout : Texts]

\* subprocess.run(..., text=True, timeout=5) followed by the returncode test
\* and stdout.strip(); decoding the output is part of subprocess.run.
RunKeychainTool(kc) ==
    IF kc.run \in {"TimeoutExpired", "FileNotFoundError", "OSError"}
    THEN Raise(kc.run)
    ELSE IF kc.run = "ok" /\ kc.stdout.kind = "notutf8"
    THEN Raise("UnicodeDecodeError")
    ELSE IF kc.run # "ok" THEN Return(NoText)
    ELSE Return(kc.stdout)

load_from_keychain(sys, kc) ==
    IF sys \notin {"Darwin", "Linux"} THEN Return(None)
    ELSE LET ran == RunKeychainTool(kc)
             body == IF ran.kind = "raise" THEN ran
                     ELSE IF ran.value.kind \in {"unset", "empty"}
                     THEN Return(None)
                     ELSE ParseAndValidate(json_loads(ran.value))
         IN  Except(body,
                    {"TimeoutExpired", "JSONDecodeError"} \cup OSErrors,
                    Return(None))

\* state: "missing" (os.path.exists is false), an OSError raised by open(),
\* or "ok" with the file's content.
FileStates ==
    [state : {"missing", "PermissionError", "IsADirectoryError"},
     content : {NoText}]
    \cup [state : {"ok"}, content : Texts]

\* with open(path) as f: json.load(f)
ReadJsonFile(file) ==
    IF file.state # "ok" THEN Raise(file.state)
    ELSE IF file.content.kind = "notutf8" THEN Raise("UnicodeDecodeError")
    ELSE json_loads(file.content)

load_from_file(file) ==
    IF file.state = "missing" THEN Return(None)
    ELSE Except(ParseAndValidate(ReadJsonFile(file)),
                {"JSONDecodeError"} \cup OSErrors, Return(None))

FromTier(o, t) ==
    [kind |-> o.kind, value |-> o.value, exc |-> o.exc, tier |-> t]

\* The message of the ConfigError, in pieces.
ConfigErrorMessage ==
    <<"Portal credentials not configured.\n\nOptions:\n",
      "  1. Run ", "/htan:setup", " to auto-configure (recommended)\n",
      "  2. Set ", "HTAN_PORTAL_CREDENTIALS", " env var (JSON string, for Cowork)\n",
      "  3. Create ", "~/.config/htan-skill/portal.json", " manually\n\n",
      "Portal credentials require HTAN Claude Skill Users team membership:\n  ",
      "https://www.synapse.org/Team:3574960">>

\* The message without its last paragraph.
ConfigErrorMessageShort == SubSeq(ConfigErrorMessage, 1, 10)

\* load_portal_config raising the ConfigError with the options only.
load_portal_config_short(env, sys, kc, file) ==
    LET t1 == load_from_env(env) IN
    IF t1.kind = "raise" \/ t1.value # None THEN FromTier(t1, "env")
    ELSE LET t2 == load_from_keychain(sys, kc) IN
    IF t2.kind = "raise" \/ t2.value # None THEN FromTier(t2, "keychain")
    ELSE LET t3 == load_from_file(file) IN
    IF t3.kind = "raise" \/ t3.value # None THEN FromTier(t3, "file")
    ELSE RaiseWith("ConfigError", ConfigErrorMessageShort)

\* load_portal_config trying the tiers in the reverse order.
load_portal_config_swapped(env, sys, kc, file) ==
    LET t1 == load_from_file(file) IN
    IF t1.kind = "raise" \/ t1.value # None THEN FromTier(t1, "file")
    ELSE LET t2 == load_from_keychain(sys, kc) IN
    IF t2.kind = "raise" \/ t2.value # None THEN FromTier(t2, "keychain")
    ELSE LET t3 == load_from_env(env) IN
    IF t3.kind = "raise" \/ t3.value # None THEN FromTier(t3, "env")
    ELSE RaiseWith("ConfigError", ConfigErrorMessage)

\* The three tiers in the order the code tries them; an exception that a
\* loader lets through ends the call.  tier records which tier answered.
load_portal_config(env, sys, kc, file) ==
    LET t1 == load_from_env(env) IN
    IF t1.kind = "raise" \/ t1.value # None THEN FromTier(t1, "env")
    ELSE LET t2 == load_from_keychain(sys, kc) IN
    IF t2.kind = "raise" \/ t2.value # None THEN FromTier(t2, "keychain")
    ELSE LET t3 == load_from_file(file) IN
    IF t3.kind = "raise" \/ t3.value # None THEN FromTier(t3, "file")
    ELSE RaiseWith("ConfigError", ConfigErrorMessage)

\* detect_source probing the file first and the environment last.
detect_source_file_first(env, sys, kc, file) ==
    LET t1 == load_from_file(file) IN
    IF t1.kind = "raise" THEN t1
    ELSE IF t1.value # None THEN Return(Str(<<"file">>))
    ELSE LET t2 == load_from_keychain(sys, kc) IN
    IF t2.kind = "raise" THEN t2
    ELSE IF t2.value # None THEN Return(Str(<<"keychain">>))
    ELSE LET t3 == load_from_env(env) IN
    IF t3.kind = "raise" THEN t3
    ELSE IF t3.value # None THEN Return(Str(<<"env">>))
    ELSE Return(None)

\* detect_source: the three loaders in the same order, with the default
\* config path; the label of the first that finds something.
detect_source(env, sys, kc, file) ==
    LET t1 == load_from_env(env) IN
    IF t1.kind = "raise" THEN t1
    ELSE IF t1.value # None THEN Return(Str(<<"env">>))
    ELSE LET t2 == load_from_keychain(sys, kc) IN
    IF t2.kind = "raise" THEN t2
    ELSE IF t2.value # None THEN Return(Str(<<"keychain">>))
    ELSE LET t3 == load_from_file(file) IN
    IF t3.kind = "raise" THEN t3
    ELSE IF t3.value # None THEN Return(Str(<<"file">>))
    ELSE Return(None)

---------------------------------------------------------------------------
(* The resolver as a state machine: the three sources hold anything, and   *)
(* load_portal_config is called on them.                                   *)

\* A file: missing, "old" (there before the call) or "new" (made by the
\* call), with its length in chunks.
File(state, bytes) == [state |-> state, bytes |-> bytes]

NoFile == File("missing", 0)

NoCall == [op |-> "none", arg |-> <<>>, out |-> Return(None)]

NoInput == <<>>

\* PortalClient(): self._config = None; self._database = None
NewClient == [config |-> None, database |-> None]

EnvTexts == {NoText} \cup Texts

InitConfig ==
    /\ environ \in EnvTexts
    /\ system \in Systems
    /\ keychain \in KeychainStates
    /\ configFile \in FileStates
    /\ input = NoInput
    /\ client = NewClient
    /\ effects = <<>>
    /\ call = NoCall
    /\ disk = NoFile
    /\ pc = "idle"

LoadPortalConfig ==
    /\ call' = [op |-> "load_portal_config", arg |-> <<>>,
                out |-> load_portal_config(environ, system, keychain, configFile)]
    /\ UNCHANGED <<world, input, client, effects>>

DetectSource ==
    /\ call' = [op |-> "detect_source", arg |-> <<>>,
                out |-> detect_source(environ, system, keychain, configFile)]
    /\ UNCHANGED <<world, input, client, effects>>

NextConfig ==
    \/ LoadPortalConfig
    \/ DetectSource

SpecConfig == InitConfig /\ [][NextConfig]_vars

---------------------------------------------------------------------------
(* Claims about the resolver *)

\* What a source holds, read off the source itself: a Credential Record is
\* a JSON object with all four required keys.
IsCredentialRecord(v) == v.type = "dict" /\ REQUIRED_KEYS \subseteq v.keys

HoldsRecord(raw) == raw.kind = "json" /\ IsCredentialRecord(raw.v)

EnvHoldsRecord == HoldsRecord(environ)

KeychainHoldsRecord ==
    /\ system \in {"Darwin", "Linux"}
    /\ keychain.run = "ok"
    /\ HoldsRecord(keychain.stdout)

FileHoldsRecord == configFile.state = "ok" /\ HoldsRecord(configFile.content)

Loaded == call.op = "load_portal_config"

SourcesDecode ==
    "notutf8" \notin {environ.kind, keychain.stdout.kind, configFile.content.kind}

\* C2: a tier that cannot produce a valid record is absent, never an error:
\* whatever text the three sources hold (unset, missing, unreadable, not
\* JSON, JSON of any type, an object missing a key, a failed or timed out
\* tool), load_portal_config returns a record or raises ConfigError, and
\* raises no other exception.
C2_OnlyConfigError ==
    (Loaded /\ SourcesDecode /\ call.out.kind = "raise")
        => call.out.exc = "ConfigError"

\* C3: every value load_portal_config returns is a Credential Record, a
\* mapping with the four required keys.
C3_ReturnsCredentialRecord ==
    (Loaded /\ call.out.kind = "return") => IsCredentialRecord(call.out.value)

Detected == call.op = "detect_source"

\* What load_portal_config does in the state the sources are in.
LoadsNow == load_portal_config(environ, system, keychain, configFile)

\* C16: detect_source returns "env", "keychain" or "file" exactly when
\* load_portal_config, called on the same sources with the default path,
\* returns what that tier holds, and returns None exactly when
\* load_portal_config raises ConfigError.
C16_DetectsTheTierThatLoads ==
    Detected =>
        /\ \A t \in {"env", "keychain", "file"} :
              (call.out.kind = "return" /\ call.out.value = Str(<<t>>))
                  <=> (LoadsNow.kind = "return" /\ LoadsNow.tier = t)
        /\ (call.out.kind = "return" /\ call.out.value = None)
              <=> (LoadsNow.kind = "raise" /\ LoadsNow.exc = "ConfigError")
        /\ (call.out.kind = "return" /\ call.out.value = Str(<<"keychain">>))
              => LoadsNow.value = keychain.stdout.v
        /\ (call.out.kind = "return" /\ call.out.value = Str(<<"file">>))
              => LoadsNow.value = configFile.content.v

\* C16 witness: the environment variable holds text that is not a record,
\* the keychain and the file both hold records, and detect_source has
\* answered "keychain".
C16_Witness ==
    /\ Detected
    /\ environ.kind = "json" /\ ~EnvHoldsRecord
    /\ KeychainHoldsRecord /\ FileHoldsRecord
    /\ keychain.stdout.v.id # configFile.content.v.id
    /\ call.out.value = Str(<<"keychain">>)

\* The keychain has no entry: the platform has no keychain tool, or the
\* tool finds nothing and exits with an error.
KeychainHasNoEntry ==
    system \notin {"Darwin", "Linux"} \/ keychain.run = "nonzero"

\* C18: with the environment variable unset, no keychain entry and no
\* config file, load_portal_config raises ConfigError, and the message
\* names the three ways to set credentials up (the setup command, the
\* environment variable, the config file) and the URL of the team to join.
C18_MessageNamesTheOptions ==
    (Loaded /\ environ = NoText /\ KeychainHasNoEntry
            /\ configFile.state = "missing") =>
        /\ call.out.kind = "raise" /\ call.out.exc = "ConfigError"
        /\ {"/htan:setup", "HTAN_PORTAL_CREDENTIALS",
            "~/.config/htan-skill/portal.json",
            "https://www.synapse.org/Team:3574960"}
              \subseteq {call.out.value[i] : i \in 1..Len(call.out.value)}

\* C18 witness: on a platform with a keychain tool that found no entry,
\* nothing set and no file, the call has raised ConfigError.
C18_Witness ==
    /\ Loaded
    /\ environ = NoText /\ configFile.state = "missing"
    /\ system = "Darwin" /\ keychain.run = "nonzero"
    /\ call.out.exc = "ConfigError"
    /\ Len(call.out.value) > 0

---------------------------------------------------------------------------
(* Texts.  A text is a sequence of atoms.  Word atoms are runs of word      *)
(* characters (\w); adjacent word atoms form one longer word.               *)

MaxGateLen == 3

SpaceAtoms == {" ", "\n", "\t"}

PunctAtoms == {";", "'", "\\", "-", "(", "!", "=", "<", ">", "%"}

IsWord(a) == a \notin SpaceAtoms \cup PunctAtoms

\* str.upper() on one atom: the atoms written in lower or mixed case.
Upper(a) ==
    CASE a = "drop" -> "DROP"
      [] a = "Delete" -> "DELETE"
      [] a = "select" -> "SELECT"
      [] a = "limit" -> "LIMIT"
      [] a = "Limit" -> "LIMIT"
      [] a = "t" -> "T"
      [] OTHER -> a

UpperText(s) == [i \in 1..Len(s) |-> Upper(s[i])]

TextsUpTo(atoms, n) == UNION {[1..k -> atoms] : k \in 0..n}

\* str.split(): the maximal runs of atoms that are not whitespace.
RECURSIVE SplitFrom(_, _, _)
SplitFrom(s, cur, acc) ==
    IF s = <<>> THEN (IF cur = <<>> THEN acc ELSE Append(acc, cur))
    ELSE IF Head(s) \in SpaceAtoms
    THEN SplitFrom(Tail(s), <<>>, IF cur = <<>> THEN acc ELSE Append(acc, cur))
    ELSE SplitFrom(Tail(s), Append(cur, Head(s)), acc)

Split(s) == SplitFrom(s, <<>>, <<>>)

\* sep.join(tokens)
RECURSIVE Join(_, _)
Join(tokens, sep) ==
    IF tokens = <<>> THEN <<>>
    ELSE IF Len(tokens) = 1 THEN tokens[1]
    ELSE tokens[1] \o <<sep>> \o Join(Tail(tokens), sep)

\* " ".join(sql.upper().split())
Normalized(sql) == Join(Split(UpperText(sql)), " ")

\* re.search(r"\b" + keyword + r"\b", text): the keyword with no word
\* character before it and none after it.
SearchWord(keyword, text) ==
    \E i \in 1..Len(text) :
        /\ text[i] = keyword
        /\ (i = 1 \/ ~IsWord(text[i - 1]))
        /\ (i = Len(text) \/ ~IsWord(text[i + 1]))

---------------------------------------------------------------------------
(* The SQL safety gate *)

BLOCKED_SQL_KEYWORDS ==
    <<"DELETE", "DROP", "UPDATE", "INSERT", "CREATE",
      "ALTER", "TRUNCATE", "MERGE", "GRANT", "REVOKE">>

ALLOWED_SQL_STARTS == <<"SELECT", "WITH", "SHOW", "DESCRIBE", "EXPLAIN", "EXISTS">>

Range(f) == {f[i] : i \in DOMAIN f}

Verdict(safe, reason) == [safe |-> safe, reason |-> reason]

AllowlistReason == <<"SQL must start with one of: ">> \o ALLOWED_SQL_STARTS

\* The allowlist test and what follows it.
CheckFirstWord(normalized) ==
    LET words == Split(normalized)
        first_word == IF words # <<>> THEN words[1] ELSE <<>>
    IN  IF \A a \in Range(ALLOWED_SQL_STARTS) : first_word # <<a>>
        THEN Verdict(FALSE, AllowlistReason)
        ELSE Verdict(TRUE, <<"OK">>)

\* The gate with the allowlist tested before the denylist.
validate_sql_safety_allowfirst(sql) ==
    LET normalized == Normalized(sql)
        first == CheckFirstWord(normalized)
        hits == {k \in DOMAIN BLOCKED_SQL_KEYWORDS :
                    SearchWord(BLOCKED_SQL_KEYWORDS[k], normalized)}
    IN  IF ~first.safe THEN first
        ELSE IF hits # {}
        THEN Verdict(FALSE, <<"Blocked SQL keyword: ",
                 BLOCKED_SQL_KEYWORDS[CHOOSE k \in hits : \A j \in hits : k <= j]>>)
        ELSE first

\* The gate matching the denylist on the text as written, not upper-cased.
validate_sql_safety_nocase(sql) ==
    LET normalized == Join(Split(sql), " ")
        hits == {k \in DOMAIN BLOCKED_SQL_KEYWORDS :
                    SearchWord(BLOCKED_SQL_KEYWORDS[k], normalized)}
    IN  IF hits # {}
        THEN Verdict(FALSE, <<"Blocked SQL keyword: ",
                 BLOCKED_SQL_KEYWORDS[CHOOSE k \in hits : \A j \in hits : k <= j]>>)
        ELSE CheckFirstWord(Normalized(sql))

\* for keyword in BLOCKED_SQL_KEYWORDS: the first keyword of the list that
\* matches decides; then the allowlist.
validate_sql_safety(sql) ==
    LET normalized == Normalized(sql)
        hits == {k \in DOMAIN BLOCKED_SQL_KEYWORDS :
                    SearchWord(BLOCKED_SQL_KEYWORDS[k], normalized)}
    IN  IF hits # {}
        THEN Verdict(FALSE, <<"Blocked SQL keyword: ",
                 BLOCKED_SQL_KEYWORDS[CHOOSE k \in hits : \A j \in hits : k <= j]>>)
        ELSE CheckFirstWord(normalized)

\* The texts the gate is run on.
GateAtoms ==
    Range(BLOCKED_SQL_KEYWORDS) \cup {"drop", "Delete"}
    \cup {"SELECT", "select", "WITH", "EXISTS", "CALL", "t", "_",
          " ", "\n", ";", "("}

\* The world outside the function under study, held fixed.
FixedWorld ==
    /\ client = NewClient
    /\ effects = <<>>
    /\ environ = NoText
    /\ system = "Linux"
    /\ keychain = [run |-> "nonzero", stdout |-> NoText]
    /\ configFile = [state |-> "missing", content |-> NoText]

InitGate ==
    /\ FixedWorld
    /\ input \in TextsUpTo(GateAtoms, MaxGateLen)
    /\ call = NoCall
    /\ disk = NoFile
    /\ pc = "idle"

ValidateSqlSafety ==
    /\ call' = [op |-> "validate_sql_safety", arg |-> input,
                out |-> Return(validate_sql_safety(input))]
    /\ UNCHANGED <<world, input, client, effects>>

NextGate == ValidateSqlSafety

SpecGate == InitGate /\ [][NextGate]_vars

---------------------------------------------------------------------------
(* Claims about the gate, stated on the text as the caller wrote it *)

\* K, in any letter case, stands in the text as a word of its own.
StandsAlone(K, sql) ==
    \E i \in 1..Len(sql) :
        /\ Upper(sql[i]) = K
        /\ (i = 1 \/ ~IsWord(sql[i - 1]))
        /\ (i = Len(sql) \/ ~IsWord(sql[i + 1]))

Denylist == Range(BLOCKED_SQL_KEYWORDS)

\* The first whitespace-delimited token, upper-cased, is allowlisted.
StartsAllowed(sql) ==
    /\ Split(sql) # <<>>
    /\ \E a \in Range(ALLOWED_SQL_STARTS) : UpperText(Split(sql)[1]) = <<a>>

Gated == call.op = "validate_sql_safety"

\* C4 as claimed: whenever a denylisted keyword K stands alone in the text,
\* the gate answers unsafe and the reason names K, for every such K.
C4_ReasonNamesEveryKeyword ==
    Gated =>
        \A K \in Denylist :
            StandsAlone(K, call.arg) =>
                /\ ~call.out.value.safe
                /\ K \in Range(call.out.value.reason)

\* C4 amended: whenever a denylisted keyword stands alone in the text, the
\* gate answers unsafe and the reason names exactly one keyword: the first
\* in the order of the denylist among those that stand alone in the text.
C4_ReasonNamesFirstKeyword ==
    Gated =>
        \A K \in Denylist :
            StandsAlone(K, call.arg) =>
                /\ ~call.out.value.safe
                /\ \E k \in DOMAIN BLOCKED_SQL_KEYWORDS :
                      /\ StandsAlone(BLOCKED_SQL_KEYWORDS[k], call.arg)
                      /\ \A j \in 1..(k - 1) :
                            ~StandsAlone(BLOCKED_SQL_KEYWORDS[j], call.arg)
                      /\ call.out.value.reason =
                            <<"Blocked SQL keyword: ", BLOCKED_SQL_KEYWORDS[k]>>

\* C4 witness: the gate has judged a text in which two denylisted keywords
\* stand alone, one of them in lower case, and named DELETE.
C4_Witness ==
    /\ Gated
    /\ StandsAlone("DROP", call.arg) /\ StandsAlone("DELETE", call.arg)
    /\ "drop" \in Range(call.arg)
    /\ call.out.value = Verdict(FALSE, <<"Blocked SQL keyword: ", "DELETE">>)

\* C5: a text whose first token is not allowlisted is rejected, the empty
\* and the blank text included; the gate answers safe, with reason OK,
\* exactly when the first token is allowlisted and no denylisted keyword
\* stands alone in the text.
C5_AllowlistDecides ==
    Gated =>
        /\ ~StartsAllowed(call.arg) => ~call.out.value.safe
        /\ call.out.value.safe <=>
              /\ StartsAllowed(call.arg)
              /\ \A K \in Denylist : ~StandsAlone(K, call.arg)
        /\ call.out.value.safe <=> call.out.value.reason = <<"OK">>

\* C5 witness: a blank, non-empty text, which has no first token and holds
\* no denylisted keyword, has been rejected for its start.
C5_Witness ==
    /\ Gated
    /\ call.arg # <<>>
    /\ Range(call.arg) \subseteq SpaceAtoms
    /\ call.out.value = Verdict(FALSE, AllowlistReason)

---------------------------------------------------------------------------
(* ensure_limit *)

MaxLimitLen == 4

MaxLimit == 2

DEFAULT_LIMIT == 100

SQL_DEFAULT_LIMIT == 1000

\* str.rstrip(): trailing whitespace removed.
RECURSIVE RStrip(_, _)
RStrip(s, chars) ==
    IF s # <<>> /\ s[Len(s)] \in chars
    THEN RStrip(SubSeq(s, 1, Len(s) - 1), chars)
    ELSE s

\* "LIMIT" in text: LIMIT occurs in the text, inside a longer word or not.
HasSubstring(word, text) == \E i \in 1..Len(text) : text[i] = word

\* f"\nLIMIT {limit}"
LimitClause(limit) == <<"\n", "LIMIT", " ", ToString(limit)>>

\* ensure_limit appending the clause whatever the text holds.
ensure_limit_always(sql, limit) ==
    RStrip(RStrip(sql, SpaceAtoms), {";"}) \o LimitClause(limit)

ensure_limit(sql, limit) ==
    IF ~HasSubstring("LIMIT", Normalized(sql))
    THEN RStrip(RStrip(sql, SpaceAtoms), {";"}) \o LimitClause(limit)
    ELSE sql

LimitAtoms == {"SELECT", "t", "LIMIT", "limit", "5", " ", ";"}

Limits == (1..MaxLimit) \cup {DEFAULT_LIMIT, SQL_DEFAULT_LIMIT}

InitLimit ==
    /\ FixedWorld
    /\ input \in TextsUpTo(LimitAtoms, MaxLimitLen)
    /\ call = NoCall
    /\ disk = NoFile
    /\ pc = "idle"

\* sql = ensure_limit(sql, limit): the text is replaced by the result, and
\* the function may be applied to its own result.
EnsureLimit ==
    \E limit \in Limits :
        /\ call' = [op |-> "ensure_limit",
                    arg |-> [sql |-> input, limit |-> limit],
                    out |-> Return(ensure_limit(input, limit))]
        /\ input' = ensure_limit(input, limit)
        /\ UNCHANGED <<world, client, effects>>

NextLimit == EnsureLimit

SpecLimit == InitLimit /\ [][NextLimit]_vars

\* The number of LIMIT clauses of a text: the places where LIMIT, in any
\* letter case, stands as a word of its own.
LimitClauses(sql) ==
    Cardinality({i \in 1..Len(sql) :
        /\ Upper(sql[i]) = "LIMIT"
        /\ (i = 1 \/ ~IsWord(sql[i - 1]))
        /\ (i = Len(sql) \/ ~IsWord(sql[i + 1]))})

Limited == call.op = "ensure_limit"

\* C9: for a text with no LIMIT token, ensure_limit returns the text with
\* trailing whitespace and trailing semicolons stripped, followed by the
\* clause LIMIT n; the result has exactly one LIMIT clause and does not end
\* with a semicolon.
C9_AppendsOneLimit ==
    (Limited /\ LimitClauses(call.arg.sql) = 0) =>
        /\ call.out.value =
              RStrip(RStrip(call.arg.sql, SpaceAtoms), {";"})
                  \o LimitClause(call.arg.limit)
        /\ LimitClauses(call.out.value) = 1
        /\ call.out.value[Len(call.out.value)] # ";"

\* C10: a text that holds a LIMIT clause is returned unchanged, and
\* ensure_limit applied to a result of ensure_limit returns it unchanged.
C10_KeepsExistingLimit ==
    /\ [](Limited /\ LimitClauses(call.arg.sql) > 0
             => call.out.value = call.arg.sql)
    /\ [][Limited => input' = input]_vars

\* C10 witness: ensure_limit has been applied to a text that had no LIMIT
\* in it, and the result, which now ends with the clause, is the text the
\* next application starts from.
C10_Witness ==
    /\ Limited
    /\ ~HasSubstring("LIMIT", UpperText(call.arg.sql))
    /\ LimitClauses(input) = 1
    /\ input = call.out.value

---------------------------------------------------------------------------
(* validate_table_name *)

MaxNameLen == 2

\* The atoms made of characters of the class [a-zA-Z0-9_] only.
TableCharAtoms == {"files", "a", "Z", "0", "_"}

\* TABLE_NAME_PATTERN.match(name) for ^[a-zA-Z0-9_]+$ : one or more
\* characters of the class from the start, up to the end of the text, where
\* $ stands for the end of the text or the place before a newline that ends
\* the text.
MatchesClassToEnd(name, class) ==
    \E k \in 1..Len(name) :
        /\ \A i \in 1..k : name[i] \in class
        /\ \/ k = Len(name)
           \/ k = Len(name) - 1 /\ name[Len(name)] = "\n"

validate_table_name(name) ==
    IF ~MatchesClassToEnd(name, TableCharAtoms)
    THEN Raise("ValueError")
    ELSE Return(name)

NameAtoms == TableCharAtoms \cup {" ", "\n", ";", "-", "'"}

InitTable ==
    /\ FixedWorld
    /\ input \in TextsUpTo(NameAtoms, MaxNameLen)
    /\ call = NoCall
    /\ disk = NoFile
    /\ pc = "idle"

ValidateTableName ==
    /\ call' = [op |-> "validate_table_name", arg |-> input,
                out |-> validate_table_name(input)]
    /\ UNCHANGED <<world, input, client, effects>>

NextTable == ValidateTableName

SpecTable == InitTable /\ [][NextTable]_vars

\* A name of the character class [A-Za-z0-9_]+ : not empty, and every
\* character in the class.
IsTableName(name) ==
    name # <<>> /\ \A i \in 1..Len(name) : name[i] \in TableCharAtoms

\* C7: validate_table_name accepts a name if and only if it is not empty and
\* all its characters are in [A-Za-z0-9_]; it raises ValueError for every
\* other text.
C7_AcceptsExactlyTheClass ==
    call.op = "validate_table_name" =>
        /\ call.out.kind = "return" <=> IsTableName(call.arg)
        /\ call.out.kind = "raise" => call.out.exc = "ValueError"

---------------------------------------------------------------------------
(* escape_sql_string *)

MaxEscLen == 4

\* str.replace(old, new) for a one-character old.
RECURSIVE Replace(_, _, _)
Replace(s, old, new) ==
    IF s = <<>> THEN <<>>
    ELSE (IF Head(s) = old THEN new ELSE <<Head(s)>>) \o Replace(Tail(s), old, new)

\* escape_sql_string escaping the quotes and leaving the backslashes.
escape_sql_string_quotes_only(s) == Replace(s, "'", <<"\\", "'">>)

\* escape_sql_string escaping the quotes first and the backslashes second.
escape_sql_string_quotes_first(s) ==
    Replace(Replace(s, "'", <<"\\", "'">>), "\\", <<"\\", "\\">>)

\* s.replace("\\", "\\\\").replace("'", "\\'")
escape_sql_string(s) ==
    Replace(Replace(s, "\\", <<"\\", "\\">>), "'", <<"\\", "'">>)

EscapeAtoms == {"a", "%", "\\", "'"}

InitEscape ==
    /\ FixedWorld
    /\ input \in TextsUpTo(EscapeAtoms, MaxEscLen)
    /\ call = NoCall
    /\ disk = NoFile
    /\ pc = "idle"

EscapeSqlString ==
    /\ call' = [op |-> "escape_sql_string", arg |-> input,
                out |-> Return(escape_sql_string(input))]
    /\ UNCHANGED <<world, input, client, effects>>

NextEscape == EscapeSqlString

SpecEscape == InitEscape /\ [][NextEscape]_vars

\* The number of backslashes that stand immediately before position i.
RECURSIVE BackslashesBefore(_, _)
BackslashesBefore(s, i) ==
    IF i > 1 /\ s[i - 1] = "\\" THEN 1 + BackslashesBefore(s, i - 1) ELSE 0

\* Reading a single-quoted literal from its opening quote at position 1: a
\* backslash takes the next character with it, and the first quote not
\* taken that way closes the literal.  The position of the closing quote,
\* or 0 if the literal is not closed.
RECURSIVE ClosingQuote(_, _)
ClosingQuote(s, i) ==
    IF i > Len(s) THEN 0
    ELSE IF s[i] = "\\" THEN ClosingQuote(s, i + 2)
    ELSE IF s[i] = "'" THEN i
    ELSE ClosingQuote(s, i + 1)

Quoted(s) == <<"'">> \o s \o <<"'">>

Escaped == call.op = "escape_sql_string"

\* C8: in escape_sql_string(s) every single quote has an odd number of
\* backslashes immediately before it and the text does not end in an
\* unescaped backslash, so '<escaped>' is one literal: it is closed by its
\* last quote and by nothing before it.
C8_EscapedLiteralIsClosedAtItsEnd ==
    Escaped =>
        LET e == call.out.value IN
        /\ \A i \in 1..Len(e) :
              e[i] = "'" => BackslashesBefore(e, i) % 2 = 1
        /\ BackslashesBefore(e, Len(e) + 1) % 2 = 0
        /\ ClosingQuote(Quoted(e), 2) = Len(e) + 2

\* C8 witness: a text holding a backslash followed by a quote has been
\* escaped.
C8_Witness ==
    /\ Escaped
    /\ \E i \in 1..(Len(call.arg) - 1) :
          call.arg[i] = "\\" /\ call.arg[i + 1] = "'"
    /\ Len(call.out.value) > Len(call.arg)

---------------------------------------------------------------------------
(* The download validators *)

\* pattern.match(text) for ^<prefix><class>+$
MatchesPattern(text, prefix, class) ==
    /\ Len(text) > Len(prefix)
    /\ SubSeq(text, 1, Len(prefix)) = prefix
    /\ MatchesClassToEnd(SubSeq(text, Len(prefix) + 1, Len(text)), class)

DigitAtoms == {"1", "26535909"}

\* SYNAPSE_ID_PATTERN = ^syn\d+$
validate_synapse_id(synapse_id) ==
    IF ~MatchesPattern(synapse_id, <<"syn">>, DigitAtoms)
    THEN Raise("ValueError")
    ELSE Return(synapse_id)

\* The atoms made of characters of the class [a-zA-Z0-9._/\-] only.
GuidAtoms == {"abc-123", "/", "dg.4DFC", "nci-crdc.datacommons.io", "wrong.host"}

\* The two alternatives of DRS_URI_PATTERN before the GUID.
DrsPrefixes ==
    {<<"drs://", "dg.4DFC", "/">>,
     <<"drs://", "nci-crdc.datacommons.io", "/", "dg.4DFC", "/">>}

\* DRS_URI_PATTERN =
\*   ^drs://(dg\.4DFC|nci-crdc\.datacommons\.io/dg\.4DFC)/[a-zA-Z0-9._/\-]+$
validate_drs_uri(uri) ==
    IF ~\E prefix \in DrsPrefixes : MatchesPattern(uri, prefix, GuidAtoms)
    THEN Raise("ValueError")
    ELSE Return(uri)

---------------------------------------------------------------------------
(* The portal client and the downloads, with their external effects.  The  *)
(* outcome of a call is [c: the client after it, log: its effects in       *)
(* order, out: what it returns or raises].                                 *)

Ran(c, log, out) == [c |-> c, log |-> log, out |-> out]

\* An external effect: what is done and, for a request, the text sent.
Effect(kind) == [kind |-> kind, body |-> <<>>]

Request(body) == [kind |-> "http", body |-> body]

\* A request of a PortalClient, with the record and the database it is
\* sent with.
RequestAs(body, config, database) ==
    [kind |-> "http", body |-> body, config |-> config, database |-> database]

\* str.replace(old, new) for an old of several characters: the occurrences
\* of old are found from the left, and the search goes on after each.
RECURSIVE ReplaceAll(_, _, _)
ReplaceAll(s, old, new) ==
    IF s = <<>> THEN <<>>
    ELSE IF Len(s) >= Len(old) /\ SubSeq(s, 1, Len(old)) = old
    THEN new \o ReplaceAll(SubSeq(s, Len(old) + 1, Len(s)), old, new)
    ELSE <<Head(s)>> \o ReplaceAll(Tail(s), old, new)

\* normalize_sql replacing != first and \!= second.
normalize_sql_unescaped_first(sql) ==
    ReplaceAll(ReplaceAll(sql, <<"!", "=">>, <<"<", ">">>),
               <<"\\", "!", "=">>, <<"<", ">">>)

\* sql.replace('\\!=', '<>') then sql.replace('!=', '<>')
normalize_sql(sql) ==
    ReplaceAll(ReplaceAll(sql, <<"\\", "!", "=">>, <<"<", ">">>),
               <<"!", "=">>, <<"<", ">">>)

DbName(n) == [type |-> "str", keys |-> {}, id |-> n]

\* What discover_database returns: the latest database, or the configured
\* default, which is None for "auto".
DiscoveryResults == {None, DbName(1)}

\* x = v; F(x): v is computed once.
Let(v, F(_)) == CHOOSE y \in {F(x) : x \in {v}} : TRUE

\* self._cfg() without the cache: the resolver is asked every time.
Cfg_reload(c, log) ==
    Let(load_portal_config(environ, system, keychain, configFile),
        LAMBDA r :
            Ran(IF r.kind = "return" THEN [c EXCEPT !.config = r.value] ELSE c,
                Append(log, Effect("load_portal_config")), r))

\* self._cfg()
Cfg(c, log) ==
    IF c.config # None THEN Ran(c, log, Return(c.config))
    ELSE Let(load_portal_config(environ, system, keychain, configFile),
             LAMBDA r :
                 Ran(IF r.kind = "return" THEN [c EXCEPT !.config = r.value] ELSE c,
                     Append(log, Effect("load_portal_config")), r))

CatalogQuery == <<"SHOW DATABASES LIKE ", "'", "htan_", "%", "'">>

\* self._db(): discover_database(config=self._cfg()) sends one catalog
\* query and never raises; found is what it returns.
Db(c, log, found) ==
    IF c.database # None THEN Ran(c, log, Return(c.database))
    ELSE Let(Cfg(c, log),
             LAMBDA g :
                 IF g.out.kind = "raise" THEN g
                 ELSE Ran([g.c EXCEPT !.database = found],
                          Append(g.log, RequestAs(normalize_sql(CatalogQuery),
                                                  g.out.value, Str(<<>>))),
                          Return(found)))

\* clickhouse_query(sql, database=self._db(), config=self._cfg()): the
\* arguments are evaluated in this order, then the normalized text is sent
\* in one request; resp is "ok" or the error the request or the parsing of
\* its body ends in.
ClientRequest(c, log, sql, found, resp) ==
    Let(Db(c, log, found),
        LAMBDA d :
            IF d.out.kind = "raise" THEN d
            ELSE Let(Cfg(d.c, d.log),
                     LAMBDA g :
                         IF g.out.kind = "raise" THEN g
                         ELSE Ran(g.c,
                                  Append(g.log,
                                         RequestAs(normalize_sql(sql),
                                                   g.out.value, d.out.value)),
                                  IF resp = "ok" THEN Return(None)
                                  ELSE Raise(resp))))

Responses == {"ok", "PortalError"}

\* PortalClient.query
query(c, sql, found, resp) ==
    IF ~validate_sql_safety(sql).safe
    THEN Ran(c, <<>>, Raise("PortalError"))
    ELSE ClientRequest(c, <<>>, ensure_limit(sql, SQL_DEFAULT_LIMIT), found, resp)

\* The row count of describe_table, whose PortalError is swallowed, and
\* the self._db() of the result.
CountAndReturn(r1, table, found2, resp2, found3) ==
    Let(ClientRequest(r1.c, r1.log, <<"SELECT count() as cnt FROM ">> \o table,
                      found2, resp2),
        LAMBDA r2 :
            IF r2.out.kind = "raise" /\ r2.out.exc # "PortalError" THEN r2
            ELSE Let(Db(r2.c, r2.log, found3),
                     LAMBDA d :
                         IF d.out.kind = "raise" THEN d
                         ELSE Ran(d.c, d.log, Return(None))))

\* PortalClient.describe_table: the name is validated, then DESCRIBE is
\* sent, then the row count is asked for.
describe_table(c, table, found, resp1, resp2) ==
    IF validate_table_name(table).kind = "raise"
    THEN Ran(c, <<>>, Raise("ValueError"))
    ELSE Let(ClientRequest(c, <<>>, <<"DESCRIBE ">> \o table, found[1], resp1),
             LAMBDA r1 :
                 IF r1.out.kind = "raise" THEN r1
                 ELSE CountAndReturn(r1, table, found[2], resp2, found[3]))

\* gen3.resolve: auth is how _get_gen3_auth ends, presign how
\* get_presigned_url ends; a failure ends the process (sys.exit(1)).
gen3_resolve(uri, auth, presign) ==
    IF validate_drs_uri(uri).kind = "raise"
    THEN Ran(NewClient, <<>>, Raise("ValueError"))
    ELSE IF auth # "ok"
    THEN Ran(NewClient, <<Effect("read_credentials")>>, Raise("SystemExit"))
    ELSE Ran(NewClient, <<Effect("read_credentials"), Request(<<>>)>>,
             IF presign = "ok" THEN Return(None) ELSE Raise("SystemExit"))

\* The end of gen3.download, after the output directory is made: nothing if
\* the output file exists; else the request, the file, and its removal if the
\* transfer fails.
Transfer(exists, transfer) ==
    IF exists THEN Ran(NewClient, <<>>, Return(None))
    ELSE IF transfer = "no_connection"
    THEN Ran(NewClient, <<Request(<<>>)>>, Raise("SystemExit"))
    ELSE IF transfer = "broken"
    THEN Ran(NewClient,
             <<Request(<<>>), Effect("open_file"), Effect("remove_file")>>,
             Raise("SystemExit"))
    ELSE Ran(NewClient, <<Request(<<>>), Effect("open_file")>>, Return(None))

\* gen3.download: exists says whether the output file is there already,
\* transfer how the transfer ends.
gen3_download(uri, dry_run, auth, presign, exists, transfer) ==
    IF validate_drs_uri(uri).kind = "raise"
    THEN Ran(NewClient, <<>>, Raise("ValueError"))
    ELSE IF dry_run THEN Ran(NewClient, <<>>, Return(None))
    ELSE Let(gen3_resolve(uri, auth, presign),
             LAMBDA r :
                 IF r.out.kind = "raise" THEN r
                 ELSE Let(Append(r.log, Effect("makedirs")),
                          LAMBDA made :
                              Ran(NewClient,
                                  made \o Transfer(exists, transfer).log,
                                  Transfer(exists, transfer).out)))

\* synapse.download: login is how _get_synapse_client ends, get how syn_get
\* ends.
synapse_download(synapse_id, dry_run, login, get) ==
    IF validate_synapse_id(synapse_id).kind = "raise"
    THEN Ran(NewClient, <<>>, Raise("ValueError"))
    ELSE IF login # "ok"
    THEN Ran(NewClient, <<Effect("makedirs"), Request(<<>>)>>, Raise("SystemExit"))
    ELSE IF get # "ok"
    THEN Ran(NewClient, <<Effect("makedirs"), Request(<<>>), Request(<<>>)>>,
             Raise("SystemExit"))
    ELSE Ran(NewClient,
             <<Effect("makedirs"), Request(<<>>), Request(<<>>)>>
                 \o (IF dry_run THEN <<>> ELSE <<Effect("open_file")>>),
             Return(None))

\* The arguments the operations are called with.
SqlInputs ==
    {<<>>, <<" ">>, <<"SELECT", " ", "t">>, <<"select", " ", "t", ";">>,
     <<"SELECT", " ", "t", " ", "LIMIT", " ", "5">>, <<"CALL", " ", "t">>,
     <<"DROP", " ", "t">>, <<"SELECT", " ", "t", ";", " ", "drop", " ", "t">>}

TableInputs ==
    {<<>>, <<"files">>, <<"files", "_", "0">>, <<"files", "\n">>,
     <<"files", ";", " ", "a">>, <<"files", "-", "-">>, <<"a", "'">>,
     <<"\n">>, <<" ", "files">>}

DrsInputs ==
    {prefix \o guid \o tail :
        prefix \in DrsPrefixes \cup {<<>>, <<"drs://", "wrong.host", "/">>},
        guid \in {<<>>, <<"abc-123">>, <<"abc-123", ";">>},
        tail \in {<<>>, <<"\n">>}}

SynapseInputs ==
    {<<>>, <<"syn">>, <<"syn", "26535909">>, <<"syn", "1", "1">>,
     <<"syn", "1", "\n">>, <<"syn", "1", " ">>, <<"syn", "x">>,
     <<"26535909">>, <<"x", "syn", "1">>}

ValidRecord(n) ==
    [kind |-> "json", v |-> [type |-> "dict", keys |-> REQUIRED_KEYS, id |-> n]]

\* A client made with or without a config, in a process with or without
\* credentials in the environment variable.
InitClient ==
    /\ environ \in {NoText, ValidRecord(1)}
    /\ system = "Linux"
    /\ keychain = [run |-> "nonzero", stdout |-> NoText]
    /\ configFile = [state |-> "missing", content |-> NoText]
    /\ input = NoInput
    /\ client \in {NewClient, [config |-> ValidRecord(MaxCredId).v, database |-> None]}
    /\ effects = <<>>
    /\ call = NoCall
    /\ disk = NoFile
    /\ pc = "idle"

Finish(op, arg, r) ==
    /\ call' = [op |-> op, arg |-> arg, out |-> r.out]
    /\ effects' = r.log
    /\ UNCHANGED <<world, input>>

Query ==
    \E sql \in SqlInputs, found \in DiscoveryResults, resp \in Responses :
        \E r \in {query(client, sql, found, resp)} :
            Finish("query", sql, r) /\ client' = r.c

DescribeTable ==
    \E table \in TableInputs, found \in [1..3 -> DiscoveryResults],
       resp1 \in Responses, resp2 \in Responses :
        \E r \in {describe_table(client, table, found, resp1, resp2)} :
            Finish("describe_table", table, r) /\ client' = r.c

Gen3Resolve ==
    \E uri \in DrsInputs, auth \in {"ok", "exit"}, presign \in {"ok", "fail"} :
        /\ Finish("gen3_resolve", uri, gen3_resolve(uri, auth, presign))
        /\ UNCHANGED client

Gen3Download ==
    \E uri \in DrsInputs, dry_run \in BOOLEAN, auth \in {"ok", "exit"},
       presign \in {"ok", "fail"}, exists \in BOOLEAN,
       transfer \in {"ok", "no_connection", "broken"} :
        /\ Finish("gen3_download", uri,
                  gen3_download(uri, dry_run, auth, presign, exists, transfer))
        /\ UNCHANGED client

SynapseDownload ==
    \E synapse_id \in SynapseInputs, dry_run \in BOOLEAN,
       login \in {"ok", "exit"}, get \in {"ok", "fail"} :
        /\ Finish("synapse_download", synapse_id,
                  synapse_download(synapse_id, dry_run, login, get))
        /\ UNCHANGED client

NextClient ==
    \/ Query
    \/ DescribeTable
    \/ Gen3Resolve
    \/ Gen3Download
    \/ SynapseDownload

SpecClient == InitClient /\ [][NextClient]_vars

\* The formats of the identifiers: syn<digits>, and drs://dg.4DFC/<guid> or
\* drs://nci-crdc.datacommons.io/dg.4DFC/<guid> with a non-empty <guid>
\* over [A-Za-z0-9._/-].
IsSynapseId(id) ==
    /\ Len(id) >= 2
    /\ id[1] = "syn"
    /\ \A i \in 2..Len(id) : id[i] \in DigitAtoms

IsDrsUri(uri) ==
    \E prefix \in DrsPrefixes :
        /\ Len(uri) > Len(prefix)
        /\ SubSeq(uri, 1, Len(prefix)) = prefix
        /\ \A i \in (Len(prefix) + 1)..Len(uri) : uri[i] \in GuidAtoms

PassesGate(sql) ==
    StartsAllowed(sql) /\ \A K \in Denylist : ~StandsAlone(K, sql)

InvalidInput ==
    \/ call.op = "query" /\ ~PassesGate(call.arg)
    \/ call.op = "describe_table" /\ ~IsTableName(call.arg)
    \/ call.op \in {"gen3_resolve", "gen3_download"} /\ ~IsDrsUri(call.arg)
    \/ call.op = "synapse_download" /\ ~IsSynapseId(call.arg)

\* C6: a call with an invalid input (SQL the gate rejects, an invalid table
\* name, DRS URI or Synapse ID) raises, and has had no external effect: no
\* credentials loaded, no database discovered, no HTTP request, no directory
\* or file created.
C6_ValidationBeforeEffects ==
    InvalidInput =>
        /\ call.out.kind = "raise"
        /\ call.out.exc \in {"PortalError", "ValueError"}
        /\ effects = <<>>

---------------------------------------------------------------------------
(* normalize_sql, on texts written character by character *)

MaxNormLen == 5

NormAtoms == {"a", "!", "=", "\\", "<", ">"}

InitNormalize ==
    /\ FixedWorld
    /\ input \in TextsUpTo(NormAtoms, MaxNormLen)
    /\ call = NoCall
    /\ disk = NoFile
    /\ pc = "idle"

\* sql = normalize_sql(sql): the text is replaced by the result, and the
\* function may be applied to its own result.
NormalizeSql ==
    /\ call' = [op |-> "normalize_sql", arg |-> input,
                out |-> Return(normalize_sql(input))]
    /\ input' = normalize_sql(input)
    /\ UNCHANGED <<world, client, effects>>

NextNormalize == NormalizeSql

SpecNormalize == InitNormalize /\ [][NextNormalize]_vars

\* pat occurs in the text s.
Occurs(pat, s) ==
    \E i \in 1..(Len(s) - Len(pat) + 1) : SubSeq(s, i, i + Len(pat) - 1) = pat

\* The text read once from the left, with <> written for each \!= and for
\* each != met on the way.
RECURSIVE NotEqualRewritten(_)
NotEqualRewritten(s) ==
    IF s = <<>> THEN <<>>
    ELSE IF Len(s) >= 3 /\ SubSeq(s, 1, 3) = <<"\\", "!", "=">>
    THEN <<"<", ">">> \o NotEqualRewritten(SubSeq(s, 4, Len(s)))
    ELSE IF Len(s) >= 2 /\ SubSeq(s, 1, 2) = <<"!", "=">>
    THEN <<"<", ">">> \o NotEqualRewritten(SubSeq(s, 3, Len(s)))
    ELSE <<Head(s)>> \o NotEqualRewritten(Tail(s))

NormalizedSql == call.op = "normalize_sql"

\* C11: the result of normalize_sql holds no != ; it is the text with every
\* != and every \!= replaced by <> ; a text without != is returned as it is;
\* and normalize_sql applied to a result of normalize_sql returns it
\* unchanged.
C11_NoNotEqualLeft ==
    /\ [](NormalizedSql =>
             /\ ~Occurs(<<"!", "=">>, call.out.value)
             /\ call.out.value = NotEqualRewritten(call.arg)
             /\ ~Occurs(<<"!", "=">>, call.arg) => call.out.value = call.arg)
    /\ [][NormalizedSql => input' = input]_vars

\* C11 witness: a text holding both \!= and a != of its own has been
\* normalized, and the result is the text the next application starts from.
C11_Witness ==
    /\ NormalizedSql
    /\ Occurs(<<"\\", "!", "=">>, call.arg)
    /\ \E i \in 1..(Len(call.arg) - 1) :
          /\ call.arg[i] = "!" /\ call.arg[i + 1] = "="
          /\ (i = 1 \/ call.arg[i - 1] # "\\")
    /\ input = call.out.value
    /\ Len(input) < Len(call.arg)

---------------------------------------------------------------------------
(* parse_json_rows.  A response is a sequence of lines; a line is blank     *)
(* (empty or whitespace), the text of a JSON object, the text of a JSON     *)
(* value that is not an object (5, null, [1], "x"), or text that is not     *)
(* JSON; pad says whether whitespace surrounds it.                          *)

MaxLines == 6

ResponseLines ==
    {[kind |-> "blank", id |-> 0, pad |-> FALSE],
     [kind |-> "object", id |-> 1, pad |-> FALSE],
     [kind |-> "object", id |-> 2, pad |-> TRUE],
     [kind |-> "value", id |-> 1, pad |-> FALSE],
     [kind |-> "text", id |-> 1, pad |-> FALSE],
     [kind |-> "text", id |-> 2, pad |-> TRUE]}

\* line.strip()
StripLine(line) == [line EXCEPT !.pad = FALSE]

\* response_text.strip().split("\n"): the lines from the first to the last
\* that is not blank.
RECURSIVE StripLines(_)
StripLines(lines) ==
    IF lines = <<>> THEN <<>>
    ELSE IF Head(lines).kind = "blank" THEN StripLines(Tail(lines))
    ELSE IF lines[Len(lines)].kind = "blank"
    THEN StripLines(SubSeq(lines, 1, Len(lines) - 1))
    ELSE lines

\* json.loads(line): a dict for the text of an object, a value of another
\* type for other JSON.
LoadLine(line) ==
    IF line.kind = "object"
    THEN Return([type |-> "dict", keys |-> {}, id |-> line.id])
    ELSE IF line.kind = "value"
    THEN Return([type |-> "number", keys |-> {}, id |-> line.id])
    ELSE Raise("JSONDecodeError")

\* The loop over the lines: [rows, error_lines] after it.
RECURSIVE ParseLines(_, _, _)
ParseLines(lines, rows, error_lines) ==
    IF lines = <<>> THEN [rows |-> rows, error_lines |-> error_lines]
    ELSE LET line == StripLine(Head(lines)) IN
         IF line.kind = "blank"
         THEN ParseLines(Tail(lines), rows, error_lines)
         ELSE IF LoadLine(line).kind = "return"
         THEN ParseLines(Tail(lines), Append(rows, LoadLine(line).value),
                         error_lines)
         ELSE ParseLines(Tail(lines), rows, Append(error_lines, line))

\* f"ClickHouse returned non-JSON response:\n{error_text}"
NonJsonMessage(error_lines) ==
    [text |-> "ClickHouse returned non-JSON response:",
     lines |-> SubSeq(error_lines, 1,
                      IF Len(error_lines) < 5 THEN Len(error_lines) ELSE 5)]

\* parse_json_rows: what it returns or raises, and the warning it prints.
parse_json_rows(response_text) ==
    IF StripLines(response_text) = <<>> THEN [log |-> <<>>, out |-> Return(<<>>)]
    ELSE LET p == ParseLines(StripLines(response_text), <<>>, <<>>) IN
         IF p.rows = <<>> /\ p.error_lines # <<>>
         THEN [log |-> <<>>,
               out |-> RaiseWith("PortalError", NonJsonMessage(p.error_lines))]
         ELSE [log |-> IF p.error_lines # <<>> THEN <<Effect("stderr")>> ELSE <<>>,
               out |-> Return(p.rows)]

InitParse ==
    /\ FixedWorld
    /\ input \in TextsUpTo(ResponseLines, MaxLines)
    /\ call = NoCall
    /\ disk = NoFile
    /\ pc = "idle"

ParseJsonRows ==
    \E r \in {parse_json_rows(input)} :
        /\ call' = [op |-> "parse_json_rows", arg |-> input, out |-> r.out]
        /\ effects' = r.log
        /\ UNCHANGED <<world, input, client>>

NextParse == ParseJsonRows

SpecParse == InitParse /\ [][NextParse]_vars

\* The lines of a response of one kind, in input order, without the
\* whitespace around them.
RECURSIVE LinesOfKind(_, _)
LinesOfKind(lines, kinds) ==
    IF lines = <<>> THEN <<>>
    ELSE (IF Head(lines).kind \in kinds THEN <<StripLine(Head(lines))>> ELSE <<>>)
         \o LinesOfKind(Tail(lines), kinds)

\* The dicts of the lines that are JSON objects, in input order.
ObjectRows(lines) ==
    LET objects == LinesOfKind(lines, {"object"}) IN
    [i \in 1..Len(objects) |-> [type |-> "dict", keys |-> {}, id |-> objects[i].id]]

Parsed == call.op = "parse_json_rows"

\* C12: parse_json_rows returns, in input order, one dict per line that is
\* a JSON object, the empty list for an empty or blank response; it raises
\* PortalError exactly when some line is not blank and no line is a JSON
\* object, and the message then shows the first lines that did not parse,
\* five at most and the first among them; when some lines parse and others
\* do not it returns the rows.
C12_RowsAreTheObjectLines ==
    Parsed =>
        LET objects == ObjectRows(call.arg)
            others == LinesOfKind(call.arg, {"value", "text"})
        IN  /\ call.out.kind = "return" => call.out.value = objects
            /\ call.out.kind = "raise" <=> (objects = <<>> /\ others # <<>>)
            /\ call.out.kind = "raise" =>
                  /\ call.out.exc = "PortalError"
                  /\ Len(call.out.value.lines) =
                        (IF Len(others) < 5 THEN Len(others) ELSE 5)
                  /\ call.out.value.lines =
                        SubSeq(others, 1, Len(call.out.value.lines))

---------------------------------------------------------------------------
(* clickhouse_query: one request, and what is made of how it ends *)

\* The exception classes the except clauses tell apart, each with its base
\* class: HTTPError is a URLError, URLError and TimeoutError are OSErrors.
BaseClass(cls) ==
    CASE cls = "HTTPError" -> "URLError"
      [] cls = "URLError" -> "OSError"
      [] cls = "TimeoutError" -> "OSError"
      [] cls = "RemoteDisconnected" -> "OSError"
      [] cls = "OSError" -> "Exception"
      [] cls = "UnicodeDecodeError" -> "ValueError"
      [] cls = "JSONDecodeError" -> "ValueError"
      [] cls = "ValueError" -> "Exception"
      [] cls = "PortalError" -> "Exception"
      [] cls = "ConfigError" -> "Exception"
      [] cls = "TypeError" -> "Exception"
      [] cls = "KeyError" -> "Exception"
      [] OTHER -> "BaseException"

\* isinstance(e, base) for an exception e of class cls
RECURSIVE IsInstance(_, _)
IsInstance(cls, base) ==
    \/ cls = base
    \/ cls \notin {"Exception", "BaseException"} /\ IsInstance(BaseClass(cls), base)

\* The substrings the hint rules look for.
Marks ==
    {"Unrecognized token", "!=", "UNKNOWN_IDENTIFIER", "Missing columns",
     "CANNOT_PARSE_TEXT", "CANNOT_PARSE_INPUT", "Array", "ILLEGAL_TYPE",
     "argument of function"}

\* The body of a response.  form: text that does not start with "{", text
\* that starts with "{" and is not JSON, the text of a JSON object
\* ("padded_object" when whitespace stands before its "{"), or bytes that
\* are not UTF-8; exception: the type of the "exception" field of the
\* object, "absent" if it has none.  head: the marks within the first 500
\* characters of the body; tail: the marks after them; field: the marks
\* within the "exception" field.
TextBody(form, exception, head, tail, field) ==
    [form |-> form, exception |-> exception, id |-> 1,
     head |-> head, tail |-> tail, field |-> field]

Body(form, exception, id) ==
    [form |-> form, exception |-> exception, id |-> id,
     head |-> {}, tail |-> {}, field |-> {}]

NoBody == Body("none", "absent", 0)

\* Error bodies with marks in them: short texts with any marks, long texts
\* with marks after the 500th character, objects whose field holds any
\* marks, an object with a long field, objects after whitespace.
MarkedBodies ==
    {TextBody("text", "absent", m, {}, {}) : m \in SUBSET Marks}
    \cup {TextBody("text", "absent", m, t, {}) :
             m \in {{}, {"Array"}}, t \in {{"ILLEGAL_TYPE"}, {"Missing columns"}}}
    \cup {TextBody("brace_text", "absent", m, {}, {}) :
             m \in {{}, {"CANNOT_PARSE_TEXT"}}}
    \cup {TextBody("object", "str", m, {}, m) : m \in SUBSET Marks}
    \cup {TextBody("object", "str", {}, m, m) : m \in {{"UNKNOWN_IDENTIFIER"}}}
    \cup {TextBody("object", "absent", m, {}, {}) : m \in {{}, {"Missing columns"}}}
    \cup {TextBody("padded_object", "str", m, {}, m) :
             m \in {{}, {"UNKNOWN_IDENTIFIER"}}}

ErrorBodies ==
    {Body("text", "absent", 1), Body("brace_text", "absent", 1),
     Body("undecodable", "absent", 0)}
    \cup {Body("object", x, 1) : x \in {"absent", "str", "null", "number", "list"}}
    \cup MarkedBodies

\* How urlopen(req, timeout=timeout) and resp.read().decode("utf-8") end.
\* A connection that could not be made (name not resolved, refused, not
\* answered in time) is a URLError; a response not received in time is a
\* TimeoutError.
Outcome(exc, code, body, reason) ==
    [exc |-> exc, code |-> code, body |-> body, reason |-> reason]

UrlopenOutcomes ==
    {Outcome("none", 200, Body("text", "absent", i), "") : i \in 1..2}
    \cup {Outcome("UnicodeDecodeError", 200, Body("undecodable", "absent", 0), "")}
    \cup {Outcome("HTTPError", code, body, "") :
             code \in {400, 500}, body \in ErrorBodies}
    \cup {Outcome("URLError", 0, NoBody, reason) :
             reason \in {"Connection refused", "timed out"}}
    \cup {Outcome("TimeoutError", 0, NoBody, ""),
          Outcome("RemoteDisconnected", 0, NoBody, "")}

\* error_body = e.read().decode("utf-8"), "" if that fails; clean_msg is
\* its first 500 characters, or the "exception" field of a JSON object that
\* has one.  type is the Python type of clean_msg.
Detail(type, of, marks) == [type |-> type, of |-> of, id |-> 0, marks |-> marks]

CleanMsg(body) ==
    IF body.form = "undecodable" THEN Detail("str", "empty", {})
    ELSE IF body.form = "object" /\ body.exception # "absent"
    THEN Detail(body.exception, "exception", body.field)
    ELSE Detail("str", "body", body.head)

\* PortalError(message, hints=hints)
Message(text, code, detail, note, hints) ==
    [text |-> text, code |-> code, detail |-> detail, note |-> note,
     hints |-> hints]

NoDetail == Detail("str", "empty", {})

\* The four `if ... in clean_msg: hints.append(...)` in their order.  In a
\* str the marks are looked for as substrings; in a list they are looked
\* for as elements, and the elements of the model's lists are none of them.
Hints(clean_msg) ==
    LET has(m) == clean_msg.type = "str" /\ m \in clean_msg.marks IN
    (IF has("Unrecognized token") /\ has("!=") THEN <<"use <>">> ELSE <<>>)
    \o (IF has("UNKNOWN_IDENTIFIER") \/ has("Missing columns")
        THEN <<"describe table">> ELSE <<>>)
    \o (IF has("CANNOT_PARSE_TEXT") \/ has("CANNOT_PARSE_INPUT")
        THEN <<"OrNull cast">> ELSE <<>>)
    \o (IF has("Array") /\ (has("ILLEGAL_TYPE") \/ has("argument of function"))
        THEN <<"array function">> ELSE <<>>)

\* except urllib.error.HTTPError: the tests `"..." in clean_msg` that choose
\* the hints raise TypeError for a clean_msg that is None or a number.
OnHTTPError(o) ==
    LET clean_msg == CleanMsg(o.body) IN
    IF clean_msg.type \in {"null", "number"} THEN Raise("TypeError")
    ELSE RaiseWith("PortalError",
                   Message("ClickHouse HTTP", o.code, clean_msg, "",
                           Hints(clean_msg)))

\* The except clauses in the order they are written; the first whose class
\* the exception is an instance of handles it.
ExceptClauses == <<"HTTPError", "URLError", "TimeoutError", "PortalError", "Exception">>

Handle(o, timeout) ==
    LET clause == ExceptClauses[
            CHOOSE i \in DOMAIN ExceptClauses :
                /\ IsInstance(o.exc, ExceptClauses[i])
                /\ \A j \in 1..(i - 1) : ~IsInstance(o.exc, ExceptClauses[j])]
    IN  CASE clause = "HTTPError" -> OnHTTPError(o)
          [] clause = "URLError" ->
                RaiseWith("PortalError",
                    Message("Could not connect to HTAN portal ClickHouse", 0,
                            Detail("str", o.reason, {}),
                            "The portal endpoint may be temporarily unavailable.",
                            <<>>))
          [] clause = "TimeoutError" ->
                RaiseWith("PortalError",
                    Message("Query timed out after", timeout, NoDetail,
                            "Try a simpler query or add a LIMIT clause.", <<>>))
          [] clause = "PortalError" -> Raise("PortalError")
          [] OTHER ->
                RaiseWith("PortalError",
                    Message("str(e)", 0, Detail("str", o.exc, {}), "", <<>>))

\* clickhouse_query(sql, timeout=timeout, config=config): the record is the
\* one passed or the one load_portal_config finds; the URL and the
\* Authorization header are built from it; the normalized text is posted
\* once; o is how the request ends.
clickhouse_query(sql, timeout, config, o) ==
    Let(IF config # None THEN Ran(NewClient, <<>>, Return(config))
        ELSE Ran(NewClient, <<Effect("load_portal_config")>>,
                 load_portal_config(environ, system, keychain, configFile)),
        LAMBDA g :
            IF g.out.kind = "raise" THEN g
            ELSE IF ~(g.out.value.type = "dict"
                      /\ REQUIRED_KEYS \subseteq g.out.value.keys)
            THEN Ran(NewClient, g.log,
                     Raise(IF g.out.value.type = "dict" THEN "KeyError"
                           ELSE "TypeError"))
            ELSE Ran(NewClient, Append(g.log, Request(normalize_sql(sql))),
                     IF o.exc = "none" THEN Return(o.body)
                     ELSE Handle(o, timeout)))

TransportSql ==
    {<<"S", "E", "L", "E", "C", "T", " ", "1">>,
     <<"a", " ", "!", "=", " ", "1">>, <<"a", "\\", "!", "=", "1">>}

Timeouts == {30, 60}

\* A process with or without credentials in the environment variable.
InitTransport ==
    /\ environ \in {NoText, ValidRecord(1)}
    /\ system = "Linux"
    /\ keychain = [run |-> "nonzero", stdout |-> NoText]
    /\ configFile = [state |-> "missing", content |-> NoText]
    /\ input \in [sql : TransportSql, timeout : Timeouts,
                   config : {None, ValidRecord(MaxCredId).v},
                   urlopen : UrlopenOutcomes]
    /\ client = NewClient
    /\ effects = <<>>
    /\ call = NoCall
    /\ disk = NoFile
    /\ pc = "idle"

\* A call of clickhouse_query; input holds its arguments and how the
\* request will end.
ClickhouseQuery ==
    \E r \in {clickhouse_query(input.sql, input.timeout, input.config,
                               input.urlopen)} :
        /\ call' = [op |-> "clickhouse_query", arg |-> input, out |-> r.out]
        /\ effects' = r.log
        /\ UNCHANGED <<world, input, client>>

NextTransport == ClickhouseQuery

SpecTransport == InitTransport /\ [][NextTransport]_vars

Queried == call.op = "clickhouse_query"

\* The requests among the effects of the last call.
Requests == SelectSeq(effects, LAMBDA x : x.kind = "http")

\* The call had a credential record: passed, or found by the resolver.
HadRecord == call.arg.config # None \/ EnvHoldsRecord

\* C13: a call of clickhouse_query with a credential record issues exactly
\* one request; when the request ends in an HTTP error, a connection
\* failure or a timeout the call raises PortalError, and when it succeeds
\* the call returns the body of the response.
C13_OneRequestPerCall ==
    (Queried /\ HadRecord) =>
        /\ Len(Requests) = 1
        /\ call.arg.urlopen.exc \in {"HTTPError", "URLError", "TimeoutError"} =>
              (call.out.kind = "raise" /\ call.out.exc = "PortalError")
        /\ call.arg.urlopen.exc = "none" =>
              (call.out.kind = "return" /\ call.out.value = call.arg.urlopen.body)

\* C14: each kind of failure has its own PortalError: an HTTP error response
\* "ClickHouse HTTP <code>: ...", a connection failure "Could not connect
\* ..." with the note that the endpoint may be unavailable, a timeout "Query
\* timed out after <t>s" with the advice to add a LIMIT, which is never the
\* report of a connection failure; and a request that fails in any way ends
\* the call in PortalError, never in another exception.
C14_EachFailureItsOwnError ==
    (Queried /\ HadRecord /\ call.arg.urlopen.exc # "none") =>
        /\ call.out.kind = "raise" /\ call.out.exc = "PortalError"
        /\ call.arg.urlopen.exc = "HTTPError" =>
              /\ call.out.value.text = "ClickHouse HTTP"
              /\ call.out.value.code = call.arg.urlopen.code
        /\ call.arg.urlopen.exc = "URLError" =>
              /\ call.out.value.text = "Could not connect to HTAN portal ClickHouse"
              /\ call.out.value.note =
                    "The portal endpoint may be temporarily unavailable."
        /\ call.arg.urlopen.exc = "TimeoutError" =>
              /\ call.out.value.text = "Query timed out after"
              /\ call.out.value.code = call.arg.timeout
              /\ call.out.value.note = "Try a simpler query or add a LIMIT clause."

\* The error body parses as a JSON object that carries an "exception" field.
ParsesWithException(body) ==
    body.form \in {"object", "padded_object"} /\ body.exception # "absent"

\* The hints the substring rules give for a message that holds the marks m.
HintsByRule(m) ==
    (IF {"Unrecognized token", "!="} \subseteq m THEN <<"use <>">> ELSE <<>>)
    \o (IF m \cap {"UNKNOWN_IDENTIFIER", "Missing columns"} # {}
        THEN <<"describe table">> ELSE <<>>)
    \o (IF m \cap {"CANNOT_PARSE_TEXT", "CANNOT_PARSE_INPUT"} # {}
        THEN <<"OrNull cast">> ELSE <<>>)
    \o (IF "Array" \in m /\ m \cap {"ILLEGAL_TYPE", "argument of function"} # {}
        THEN <<"array function">> ELSE <<>>)

\* C21: on an HTTP error the call raises PortalError; its message is the
\* "exception" field when the body parses as a JSON object carrying that
\* field, and the first 500 characters of the body otherwise; and each hint
\* is attached exactly when the message holds the substrings of its rule.
C21_MessageAndHints ==
    (Queried /\ HadRecord /\ call.arg.urlopen.exc = "HTTPError") =>
        LET body == call.arg.urlopen.body IN
        /\ call.out.kind = "raise" /\ call.out.exc = "PortalError"
        /\ ParsesWithException(body) =>
              /\ call.out.value.detail.of = "exception"
              /\ call.out.value.detail.marks = body.field
        /\ ~ParsesWithException(body) =>
              /\ call.out.value.detail.of \in {"body", "empty"}
              /\ call.out.value.detail.marks = body.head
        /\ call.out.value.hints = HintsByRule(call.out.value.detail.marks)

---------------------------------------------------------------------------
(* discover_database.  The response of the catalog query is a sequence of  *)
(* lines, each a database name or blank; a name is a text.                 *)

MaxCatalogLines == 3

\* The value of the optional key default_database of the record.
NoKey == [type |-> "missing", keys |-> {}, id |-> 0]

DefaultDatabases ==
    {NoKey, Str(<<"auto">>), Str(<<>>), Str(<<"htan_", "1">>)}

\* get_default_database: cfg.get("default_database", "auto"), None for
\* "auto" and for an empty value.
get_default_database(field) ==
    LET db == IF field = NoKey THEN Str(<<"auto">>) ELSE field IN
    IF db = Str(<<"auto">>) \/ db.text = <<>> THEN None ELSE db

\* The order of the characters in a str comparison; htan_ and temp_ are
\* compared by their first letters.
CharRank(a) ==
    CASE a = "1" -> 1
      [] a = "2" -> 2
      [] a = "3" -> 3
      [] a = "htan_" -> 10
      [] a = "temp_" -> 20

\* a < b for two strs
RECURSIVE LexLess(_, _)
LexLess(a, b) ==
    IF b = <<>> THEN FALSE
    ELSE IF a = <<>> THEN TRUE
    ELSE IF Head(a) # Head(b) THEN CharRank(Head(a)) < CharRank(Head(b))
    ELSE LexLess(Tail(a), Tail(b))

\* sorted(names, reverse=True)
RECURSIVE InsertDescending(_, _)
InsertDescending(sorted, name) ==
    IF sorted = <<>> THEN <<name>>
    ELSE IF LexLess(Head(sorted), name) THEN <<name>> \o sorted
    ELSE <<Head(sorted)>> \o InsertDescending(Tail(sorted), name)

RECURSIVE SortedDescending(_)
SortedDescending(names) ==
    IF names = <<>> THEN <<>>
    ELSE InsertDescending(SortedDescending(Tail(names)), Head(names))

CatalogLine(text, pad) == [kind |-> "name", text |-> text, pad |-> pad]

CatalogLines ==
    {CatalogLine(<<>>, FALSE), CatalogLine(<<>>, TRUE),
     CatalogLine(<<"htan_">>, FALSE), CatalogLine(<<"htan_", "2">>, TRUE),
     CatalogLine(<<"htan_", "1", "2">>, FALSE),
     CatalogLine(<<"htan_", "1", "3">>, FALSE),
     CatalogLine(<<"temp_", "2">>, FALSE), CatalogLine(<<"temp_", "3">>, FALSE)}

\* [line.strip() for line in resp.strip().split("\n") if line.strip()]
RECURSIVE Databases(_)
Databases(lines) ==
    IF lines = <<>> THEN <<>>
    ELSE (IF Head(lines).text = <<>> THEN <<>> ELSE <<Head(lines).text>>)
         \o Databases(Tail(lines))

\* db.startswith("htan_")
StartsWithHtan(db) == db # <<>> /\ Head(db) = "htan_"

\* The body of the try block once the query has returned resp: the latest
\* database, or None if the response lists none; the note printed when the
\* latest is not the configured default.
Latest(lines, config_default) ==
    LET htan_dbs == SortedDescending(SelectSeq(Databases(lines), StartsWithHtan))
    IN  IF htan_dbs = <<>> THEN [log |-> <<>>, found |-> None]
        ELSE [log |-> IF config_default # None /\ Str(htan_dbs[1]) # config_default
                      THEN <<Effect("stderr")>> ELSE <<>>,
              found |-> Str(htan_dbs[1])]

\* discover_database taking the first of all the names listed, htan_ or not.
discover_database_unfiltered(config, field, o, lines) ==
    Let(clickhouse_query(CatalogQuery, 60, config, o),
        LAMBDA r :
            IF r.out.kind = "raise" \/ Databases(lines) = <<>>
            THEN Ran(NewClient, r.log, Return(get_default_database(field)))
            ELSE Ran(NewClient, r.log,
                     Return(Str(SortedDescending(Databases(lines))[1]))))

\* discover_database(config): config is the record passed, field its
\* default_database, o how the catalog request ends and lines the response
\* when it succeeds.  Without a record the resolver is asked first, outside
\* the try block.
discover_database(config, field, o, lines) ==
    IF config = None
          /\ load_portal_config(environ, system, keychain, configFile).kind = "raise"
    THEN Ran(NewClient, <<Effect("load_portal_config")>>,
             load_portal_config(environ, system, keychain, configFile))
    ELSE Let(clickhouse_query(CatalogQuery, 60, config, o),
             LAMBDA r :
                 IF r.out.kind = "raise"
                 THEN (IF IsInstance(r.out.exc, "Exception")
                       THEN Ran(NewClient, r.log, Return(get_default_database(field)))
                       ELSE r)
                 ELSE Let(Latest(lines, get_default_database(field)),
                          LAMBDA l :
                              Ran(NewClient, r.log \o l.log,
                                  Return(IF l.found # None THEN l.found
                                         ELSE get_default_database(field)))))

\* The calls of discover_database: the record passed, its default_database,
\* how the catalog request will end, and the response if it succeeds.
DiscoverInputs ==
    UNION {[config : {None, ValidRecord(MaxCredId).v},
            default_database : DefaultDatabases,
            urlopen : {o},
            lines : IF o.exc = "none"
                    THEN TextsUpTo(CatalogLines, MaxCatalogLines) ELSE {<<>>}] :
           o \in UrlopenOutcomes}

InitDiscover ==
    /\ environ \in {NoText, ValidRecord(1)}
    /\ system = "Linux"
    /\ keychain = [run |-> "nonzero", stdout |-> NoText]
    /\ configFile = [state |-> "missing", content |-> NoText]
    /\ input \in DiscoverInputs
    /\ client = NewClient
    /\ effects = <<>>
    /\ call = NoCall
    /\ disk = NoFile
    /\ pc = "idle"

DiscoverDatabase ==
    \E r \in {discover_database(input.config, input.default_database,
                                input.urlopen, input.lines)} :
        /\ call' = [op |-> "discover_database", arg |-> input, out |-> r.out]
        /\ effects' = r.log
        /\ UNCHANGED <<world, input, client>>

NextDiscover == DiscoverDatabase

SpecDiscover == InitDiscover /\ [][NextDiscover]_vars

Discovered == call.op = "discover_database"

\* The names beginning with htan_ that the response lists, when the catalog
\* query succeeded.
HtanNames ==
    IF call.arg.urlopen.exc # "none" THEN {}
    ELSE {call.arg.lines[i].text : i \in
             {j \in 1..Len(call.arg.lines) :
                 /\ call.arg.lines[j].text # <<>>
                 /\ call.arg.lines[j].text[1] = "htan_"}}

\* The configured default: None when the key is missing, "auto" or empty.
ConfiguredDefault ==
    IF call.arg.default_database \in {NoKey, Str(<<"auto">>), Str(<<>>)}
    THEN None
    ELSE call.arg.default_database

\* C15: given a credential record, discover_database does not raise; it
\* returns the lexicographically greatest of the names beginning with htan_
\* that the catalog query lists; and when the response is empty, lists no
\* such name, or the query fails, it returns the configured default.
C15_LatestOrDefault ==
    (Discovered /\ call.arg.config # None) =>
        /\ call.out.kind = "return"
        /\ HtanNames # {} =>
              /\ call.out.value.type = "str"
              /\ call.out.value.text \in HtanNames
              /\ \A n \in HtanNames : ~LexLess(call.out.value.text, n)
        /\ HtanNames = {} => call.out.value = ConfiguredDefault

\* C15 witness: the response listed a name that is not htan_ and is greater
\* than all others, and htan_2 after the longer htan_13; the configured
\* default was another name; htan_2 has been returned.
C15_Witness ==
    /\ Discovered /\ call.arg.config # None
    /\ {<<"temp_", "3">>, <<"htan_", "2">>, <<"htan_", "1", "3">>}
          \subseteq {call.arg.lines[i].text : i \in 1..Len(call.arg.lines)}
    /\ call.arg.lines[Len(call.arg.lines)].text = <<"htan_", "2">>
    /\ call.arg.default_database = Str(<<"htan_", "1">>)
    /\ call.out.value = Str(<<"htan_", "2">>)

---------------------------------------------------------------------------
(* save_to_keychain.  The outcome of a call is [env, kc, file: the three   *)
(* sources after it, out: what it returns or raises].                      *)

\* How subprocess.run(..., check=True, timeout=10) of the store command
\* ends: exit status 0, CalledProcessError for another status, or one of
\* the exceptions of a tool that is slow, missing or cannot be started.
StoreRuns == {"ok", "nonzero", "TimeoutExpired", "FileNotFoundError", "OSError"}

Saving(env, kc, file, out) == [env |-> env, kc |-> kc, file |-> file, out |-> out]

\* json.dumps(creds), as the find command prints it back
Stored(creds) == [run |-> "ok", stdout |-> [kind |-> "json", v |-> creds]]

\* save_to_keychain writing the config file when the store command fails.
save_to_keychain_or_file(creds, sys, store, env, kc, file) ==
    IF sys \in {"Darwin", "Linux"} /\ store = "ok"
    THEN Saving(env, Stored(creds), file, Return(Bool(TRUE)))
    ELSE Saving(env, kc,
                [state |-> "ok", content |-> [kind |-> "json", v |-> creds]],
                Return(Bool(TRUE)))

\* save_to_keychain(creds): on macOS and Linux the store command is run;
\* CalledProcessError, TimeoutExpired, FileNotFoundError and OSError are
\* caught.  A command that did not complete has stored nothing.
save_to_keychain(creds, sys, store, env, kc, file) ==
    IF sys \notin {"Darwin", "Linux"} THEN Saving(env, kc, file, Return(Bool(FALSE)))
    ELSE LET ran == IF store = "ok" THEN Return(Bool(TRUE))
                    ELSE IF store = "nonzero" THEN Raise("CalledProcessError")
                    ELSE Raise(store)
         IN  Saving(env, IF store = "ok" THEN Stored(creds) ELSE kc, file,
                    Except(ran,
                           {"CalledProcessError", "TimeoutExpired"} \cup OSErrors,
                           Return(Bool(FALSE))))

\* The records that are saved: complete ones, and one without a password.
SaveCreds ==
    {ValidRecord(n).v : n \in 1..MaxCredId}
    \cup {[type |-> "dict", keys |-> REQUIRED_KEYS \ {"password"}, id |-> 1]}

InitSave ==
    /\ environ \in {NoText, ValidRecord(1)}
    /\ system \in Systems
    /\ keychain \in {[run |-> "nonzero", stdout |-> NoText], Stored(ValidRecord(1).v)}
    /\ configFile \in {[state |-> "missing", content |-> NoText],
                       [state |-> "ok", content |-> ValidRecord(1)]}
    /\ input \in [creds : SaveCreds, store : StoreRuns]
    /\ client = NewClient
    /\ effects = <<>>
    /\ call = NoCall
    /\ disk = NoFile
    /\ pc = "idle"

SaveToKeychain ==
    \E r \in {save_to_keychain(input.creds, system, input.store,
                               environ, keychain, configFile)} :
        /\ call' = [op |-> "save_to_keychain", arg |-> input, out |-> r.out]
        /\ environ' = r.env
        /\ keychain' = r.kc
        /\ configFile' = r.file
        /\ UNCHANGED <<system, input, client, effects, disk, pc>>

NextSave ==
    \/ SaveToKeychain
    \/ LoadPortalConfig

SpecSave == InitSave /\ [][NextSave]_vars

Saved == call.op = "save_to_keychain"

\* C17: save_to_keychain returns True or False and never raises; it returns
\* True exactly when the platform has a store command and the command
\* completed successfully, and the keychain then holds the record; whatever
\* the outcome, the environment variable and the config file are as they
\* were before the call.
C17_KeychainOnly ==
    /\ [](Saved =>
             /\ call.out.kind = "return"
             /\ call.out.value \in {Bool(TRUE), Bool(FALSE)}
             /\ call.out.value = Bool(TRUE)
                   <=> (system \in {"Darwin", "Linux"} /\ call.arg.store = "ok"))
    /\ [][call'.op = "save_to_keychain" =>
             /\ environ' = environ
             /\ configFile' = configFile
             /\ call'.out.value = Bool(TRUE) => keychain' = Stored(call'.arg.creds)
         ]_vars

\* C17 witness: on Linux, with no config file, the store command failed:
\* the call has returned False and there is still no config file.
C17_Witness ==
    /\ Saved
    /\ system = "Linux" /\ call.arg.store = "nonzero"
    /\ configFile.state = "missing"
    /\ call.out.value = Bool(FALSE)

---------------------------------------------------------------------------
(* _validate_drs_uri on its own *)

MaxGuidLen == 2

\* What may stand where the URI begins: the two prefixes of the pattern, a
\* wrong host, the prefix without its last slash, nothing.
DrsStarts ==
    DrsPrefixes
    \cup {<<>>, <<"drs://", "wrong.host", "/">>, <<"drs://", "dg.4DFC">>}

\* What may follow: characters of the GUID class and others.
DrsRestAtoms == GuidAtoms \cup {";", " ", "\n"}

InitDrs ==
    /\ FixedWorld
    /\ input \in {start \o rest :
                     start \in DrsStarts,
                     rest \in TextsUpTo(DrsRestAtoms, MaxGuidLen)}
    /\ call = NoCall
    /\ disk = NoFile
    /\ pc = "idle"

ValidateDrsUri ==
    /\ call' = [op |-> "validate_drs_uri", arg |-> input,
                out |-> validate_drs_uri(input)]
    /\ UNCHANGED <<world, input, client, effects>>

NextDrs == ValidateDrsUri

SpecDrs == InitDrs /\ [][NextDrs]_vars

\* C19: _validate_drs_uri returns the URI if and only if it is
\* drs://dg.4DFC/<guid> or drs://nci-crdc.datacommons.io/dg.4DFC/<guid>
\* with a non-empty <guid> over [A-Za-z0-9._/-]; for every other text, one
\* that holds a semicolon, a space or a newline included, it raises
\* ValueError.
C19_AcceptsExactlyDrsUris ==
    call.op = "validate_drs_uri" =>
        /\ call.out.kind = "return" <=> IsDrsUri(call.arg)
        /\ call.out.kind = "return" => call.out.value = call.arg
        /\ call.out.kind = "raise" => call.out.exc = "ValueError"

---------------------------------------------------------------------------
(* Reversing escape_sql_string *)

\* The escaping reversed: a backslash is dropped and the character after it
\* is taken as it stands.
RECURSIVE Unescape(_)
Unescape(e) ==
    IF e = <<>> THEN <<>>
    ELSE IF Head(e) = "\\" /\ Len(e) >= 2
    THEN <<e[2]>> \o Unescape(SubSeq(e, 3, Len(e)))
    ELSE <<Head(e)>> \o Unescape(Tail(e))

\* C20: reversing the escaping of escape_sql_string(s) gives s again, and
\* no other text of the same alphabet has the same escaped text.
C20_EscapeRoundTrips ==
    Escaped =>
        /\ Unescape(call.out.value) = call.arg
        /\ \A t \in TextsUpTo(EscapeAtoms, MaxEscLen) :
              escape_sql_string(t) = call.out.value => t = call.arg

\* C20 witness: a text that holds a quote before a backslash has been
\* escaped, the escaped text is longer by two, and reversing gives the
\* text back.
C20_Witness ==
    /\ Escaped
    /\ \E i \in 1..(Len(call.arg) - 1) :
          call.arg[i] = "'" /\ call.arg[i + 1] = "\\"
    /\ Len(call.out.value) >= Len(call.arg) + 2
    /\ Unescape(call.out.value) = call.arg

---------------------------------------------------------------------------
(* gen3.download step by step: the call up to the test of the output path, *)
(* the request, the opening of the file, one step for each turn of the     *)
(* read loop, the except clause, the return.  disk is the output file.     *)

MaxChunks == 2

\* How the transfer goes: fail says what goes wrong ("no_connection":
\* urlopen raises; "open": open() raises; "broken": response.read or
\* f.write raises; "closed": the server closes the connection, and
\* response.read returns b"" as it does at the end of the body), at after
\* how many chunks; size is the length of the body in chunks.
DownloadInputs ==
    [uri : {<<"drs://", "dg.4DFC", "/", "abc-123">>, <<"abc-123">>},
     dry_run : BOOLEAN, auth : {"ok", "exit"}, presign : {"ok", "fail"},
     exists : BOOLEAN, size : 0..MaxChunks,
     fail : {"none", "no_connection", "open", "broken", "closed"},
     at : 0..MaxChunks]

OldFile == File("old", 1)

InitDownload ==
    /\ environ = NoText
    /\ system = "Linux"
    /\ keychain = [run |-> "nonzero", stdout |-> NoText]
    /\ configFile = [state |-> "missing", content |-> NoText]
    /\ input \in DownloadInputs
    /\ client = NewClient
    /\ effects = <<>>
    /\ call = NoCall
    /\ disk = IF input.exists THEN OldFile ELSE NoFile
    /\ pc = "idle"

Running(r) == [op |-> "gen3_download", arg |-> input, out |-> r]

\* download() up to `if os.path.exists(output_path)`.
Gen3DownloadCall ==
    /\ pc = "idle"
    /\ \E r \in {gen3_download(input.uri, input.dry_run, input.auth,
                               input.presign, disk.state # "missing", "ok")} :
          /\ IF r.out.kind = "raise" \/ input.dry_run \/ disk.state # "missing"
             THEN /\ pc' = "done"
                  /\ effects' = r.log
                  /\ call' = Running(IF r.out.kind = "raise" \/ input.dry_run
                                     THEN r.out
                                     ELSE Return(Str(<<"output_path">>)))
             ELSE /\ pc' = "urlopen"
                  /\ effects' = <<r.log[1], r.log[2], r.log[3]>>
                  /\ call' = Running(Return(None))
    /\ UNCHANGED <<environ, system, keychain, configFile, input, client, disk>>

\* urllib.request.urlopen(req)
Urlopen ==
    /\ pc = "urlopen"
    /\ effects' = Append(effects, Request(<<>>))
    /\ pc' = IF input.fail = "no_connection" THEN "except" ELSE "open"
    /\ UNCHANGED <<environ, system, keychain, configFile, input, client, call,
                   disk>>

\* open(output_path, "wb")
OpenFile ==
    /\ pc = "open"
    /\ IF input.fail = "open"
       THEN pc' = "except" /\ UNCHANGED <<disk, effects>>
       ELSE /\ pc' = "read"
            /\ disk' = File("new", 0)
            /\ effects' = Append(effects, Effect("open_file"))
    /\ UNCHANGED <<environ, system, keychain, configFile, input, client, call>>

\* One turn of `while True`: response.read(8192), then break or f.write.
CopyChunk ==
    /\ pc = "read"
    /\ IF input.fail = "broken" /\ disk.bytes = input.at
       THEN pc' = "except" /\ UNCHANGED disk
       ELSE IF disk.bytes >= input.size
               \/ (input.fail = "closed" /\ disk.bytes = input.at)
       THEN pc' = "return" /\ UNCHANGED disk
       ELSE pc' = "read" /\ disk' = File("new", disk.bytes + 1)
    /\ UNCHANGED <<environ, system, keychain, configFile, input, client, call,
                   effects>>

\* except Exception: remove the file if it is there, sys.exit(1)
ExceptDownload ==
    /\ pc = "except"
    /\ IF disk.state # "missing"
       THEN disk' = NoFile /\ effects' = Append(effects, Effect("remove_file"))
       ELSE UNCHANGED <<disk, effects>>
    /\ call' = Running(Raise("SystemExit"))
    /\ pc' = "done"
    /\ UNCHANGED <<environ, system, keychain, configFile, input, client>>

\* return output_path
ReturnDownload ==
    /\ pc = "return"
    /\ call' = Running(Return(Str(<<"output_path">>)))
    /\ pc' = "done"
    /\ UNCHANGED <<environ, system, keychain, configFile, input, client,
                   effects, disk>>

NextDownload ==
    \/ Gen3DownloadCall
    \/ Urlopen
    \/ OpenFile
    \/ CopyChunk
    \/ ExceptDownload
    \/ ReturnDownload

SpecDownload == InitDownload /\ [][NextDownload]_vars

Opened ==
    \E i \in 1..Len(effects) : effects[i] = Effect("open_file")

\* The transfer fails after the file was opened: a read or a write raises,
\* or the connection is closed before the end of the body.
FailedAfterOpen ==
    /\ Opened
    /\ \/ input.fail = "broken" /\ input.at <= input.size
       \/ input.fail = "closed" /\ input.at < input.size

\* C22: when a download call has ended, a failure after the output file
\* was opened has left no file and ended the process (exit status 1), and
\* the output path holds a file only if the whole body was written or the
\* file was there before the call.
C22_NoPartialFile ==
    (pc = "done" /\ call.op = "gen3_download") =>
        /\ FailedAfterOpen =>
              /\ disk.state = "missing"
              /\ call.out.kind = "raise" /\ call.out.exc = "SystemExit"
        /\ disk.state # "missing" =>
              \/ disk.state = "new" /\ disk.bytes = input.size
              \/ input.exists /\ disk = OldFile

---------------------------------------------------------------------------
(* Setup: _init_portal of the CLI and _auto_setup_portal of the MCP        *)
(* server.  The writing of the config file is modelled step by step: the   *)
(* file is opened, the record is dumped, the mode is changed.  Here the    *)
(* config file has a third field, its permission bits.                     *)

ConfigFile(state, content, mode) ==
    [state |-> state, content |-> content, mode |-> mode]

\* The bits open(CONFIG_PATH, "w") gives a file it creates: 0666 less the
\* process's umask.
CreateMode(umask) == IF umask = "077" THEN "0600" ELSE "0644"

\* What json.load gives for the downloaded file ("fail": syn.get, the
\* request or json.load raises).
Downloads ==
    {[kind |-> "fail", v |-> None]}
    \cup {[kind |-> "json", v |-> v] :
            v \in {ValidRecord(MaxCredId).v,
                   [type |-> "dict", keys |-> REQUIRED_KEYS \ {"password"}, id |-> 1],
                   [type |-> "list", keys |-> REQUIRED_KEYS, id |-> 0],
                   [type |-> "number", keys |-> {}, id |-> 0]}}

\* The arguments of _init_portal and what its environment answers: token
\* says whether SYNAPSE_AUTH_TOKEN or ~/.synapseConfig is there, login how
\* syn.login ends, store how the keychain store command ends, ping whether
\* the portal answers "1" to SELECT 1.
InitPortalInputs ==
    [op : {"_init_portal"}, force : BOOLEAN, non_interactive : BOOLEAN,
     synapse_client : BOOLEAN, token : BOOLEAN, login : {"ok", "fail"},
     download : Downloads, store : {"ok", "nonzero", "OSError"},
     umask : {"022", "077"}, ping : BOOLEAN]

AutoSetupInputs ==
    [op : {"_auto_setup_portal"}, force : {FALSE}, non_interactive : {TRUE},
     synapse_client : {FALSE}, token : {TRUE}, login : {"ok"},
     download : Downloads, store : {"ok", "nonzero", "OSError"},
     umask : {"022", "077"}, ping : {TRUE}]

InitSetup ==
    /\ environ \in {NoText, ValidRecord(1)}
    /\ system \in {"Linux", "Windows"}
    /\ keychain \in {[run |-> "nonzero", stdout |-> NoText], Stored(ValidRecord(1).v)}
    /\ configFile \in {ConfigFile("missing", NoText, "none"),
                       ConfigFile("ok", ValidRecord(1), "0644"),
                       ConfigFile("ok", ValidRecord(1), "0600")}
    /\ input \in InitPortalInputs \cup AutoSetupInputs
    /\ client = NewClient
    /\ effects = <<>>
    /\ call = NoCall
    /\ disk = NoFile
    /\ pc = "idle"

\* _verify_portal: False if load_portal_config raises; cfg["host"] and
\* cfg["user"] are read outside the try; then the request.
verify_portal(env, sys, kc, file, ping) ==
    LET cfg == load_portal_config(env, sys, kc, file) IN
    IF cfg.kind = "raise" THEN Ran(NewClient, <<>>, Return(Bool(FALSE)))
    ELSE IF cfg.value.type # "dict" THEN Ran(NewClient, <<>>, Raise("TypeError"))
    ELSE Ran(NewClient, <<Request(<<"SELECT 1">>)>>, Return(Bool(ping)))

\* The call as it stands: its outcome so far, and the sources before it.
Setup(out, before) ==
    [op |-> input.op, arg |-> input, out |-> out, before |-> before]

EndSetup(log, out) ==
    /\ pc' = "done"
    /\ effects' = log
    /\ call' = Setup(out, <<environ, keychain, configFile>>)
    /\ UNCHANGED <<keychain, configFile>>

\* missing = [k for k in REQUIRED_KEYS if k not in creds], then
\* save_to_keychain(creds); the config file is written next if the record
\* is not in the keychain (_init_portal) or in any case (_auto_setup_portal).
ValidateAndSave(log, always_file) ==
    LET creds == input.download.v
        missing == validate_config(creds) IN
    IF missing.kind = "raise" THEN EndSetup(log, missing)
    ELSE IF missing.value # {}
    THEN EndSetup(log, IF always_file THEN Raise("CredentialError")
                       ELSE Return(Bool(FALSE)))
    ELSE \E r \in {save_to_keychain(creds, system, input.store,
                                    environ, keychain, configFile)} :
            /\ keychain' = r.kc
            /\ effects' = IF r.out.value = Bool(TRUE)
                          THEN Append(log, Effect("store_keychain")) ELSE log
            /\ pc' = IF always_file \/ r.out.value = Bool(FALSE)
                     THEN "open" ELSE "verify"
            /\ call' = Setup(Return(None), <<environ, keychain, configFile>>)
            /\ UNCHANGED configFile

\* _init_portal up to the saving of the record in the keychain.
InitPortal ==
    /\ pc = "idle"
    /\ input.op = "_init_portal"
    /\ LET source == detect_source(environ, system, keychain, configFile) IN
       IF source.kind = "raise" THEN EndSetup(<<>>, source)
       ELSE IF source.value # None /\ ~input.force
       THEN \E v \in {verify_portal(environ, system, keychain, configFile,
                                    input.ping)} : EndSetup(v.log, v.out)
       ELSE IF ~input.synapse_client /\ (input.non_interactive \/ ~input.token)
       THEN EndSetup(<<>>, Return(Bool(FALSE)))
       ELSE IF ~input.synapse_client /\ input.login # "ok"
       THEN EndSetup(<<Effect("login")>>, Return(Bool(FALSE)))
       ELSE LET log == (IF input.synapse_client THEN <<>> ELSE <<Effect("login")>>)
                       \o <<Effect("download")>> IN
            IF input.download.kind = "fail"
            THEN EndSetup(log, Return(Bool(FALSE)))
            ELSE ValidateAndSave(log, FALSE)
    /\ UNCHANGED <<environ, system, input, client, disk>>

\* _auto_setup_portal up to the saving of the record in the keychain; the
\* requests that lead to the download are one effect.
AutoSetupPortal ==
    /\ pc = "idle"
    /\ input.op = "_auto_setup_portal"
    /\ IF input.download.kind = "fail"
       THEN EndSetup(<<Effect("download")>>, Raise("CredentialError"))
       ELSE ValidateAndSave(<<Effect("download")>>, TRUE)
    /\ UNCHANGED <<environ, system, input, client, disk>>

\* os.makedirs(...); open(CONFIG_PATH, "w"): a new file gets the bits the
\* umask leaves, a file that is there is emptied and keeps its bits.
OpenConfig ==
    /\ pc = "open"
    /\ configFile' = ConfigFile("ok", [kind |-> "empty", v |-> None],
                                IF configFile.state = "missing"
                                THEN CreateMode(input.umask)
                                ELSE configFile.mode)
    /\ effects' = Append(effects, Effect("open_config"))
    /\ pc' = "dump"
    /\ UNCHANGED <<environ, system, keychain, input, client, call, disk>>

\* json.dump(creds, f, indent=2); f.write("\n"); the file is closed
DumpCreds ==
    /\ pc = "dump"
    /\ configFile' = ConfigFile("ok", [kind |-> "json", v |-> input.download.v],
                                configFile.mode)
    /\ effects' = Append(effects, Effect("write_config"))
    /\ pc' = "chmod"
    /\ UNCHANGED <<environ, system, keychain, input, client, call, disk>>

\* os.chmod(CONFIG_PATH, 0o600); _auto_setup_portal then returns creds
ChmodConfig ==
    /\ pc = "chmod"
    /\ configFile' = ConfigFile("ok", configFile.content, "0600")
    /\ IF input.op = "_init_portal"
       THEN pc' = "verify" /\ UNCHANGED call
       ELSE /\ pc' = "done"
            /\ call' = Setup(Return(input.download.v), call.before)
    /\ UNCHANGED <<environ, system, keychain, input, client, effects, disk>>

\* the closing _verify_portal() of _init_portal
VerifyPortal ==
    /\ pc = "verify"
    /\ \E v \in {verify_portal(environ, system, keychain, configFile,
                               input.ping)} :
          /\ effects' = effects \o v.log
          /\ call' = Setup(v.out, call.before)
    /\ pc' = "done"
    /\ UNCHANGED <<environ, system, keychain, configFile, input, client, disk>>

NextSetup ==
    \/ InitPortal
    \/ AutoSetupPortal
    \/ OpenConfig
    \/ DumpCreds
    \/ ChmodConfig
    \/ VerifyPortal

SpecSetup == InitSetup /\ [][NextSetup]_vars

Did(kind) == \E i \in 1..Len(effects) : effects[i] = Effect(kind)

\* C23: in every state in which the setup code has written credentials to
\* the config file, the mode of the file is 0600.
C23_ConfigFileIsPrivate ==
    Did("write_config") => configFile.mode = "0600"

\* _init_portal has ended.
InitPortalDone == pc = "done" /\ call.op = "_init_portal"

\* A credential source was there before the call.
SourceBefore ==
    detect_source(call.before[1], system, call.before[2],
                  call.before[3]).value # None

\* C27: when _init_portal has ended, the downloaded credentials are in the
\* keychain or in the config file only if they are a record with every
\* required key, never in both, and in the file only if the keychain save
\* failed; the call returns True only if the connectivity check succeeded;
\* and when a source existed and force is false, nothing was downloaded or
\* written and the result is that of the connectivity check.
C27_StoredOnceIfValid ==
    InitPortalDone =>
        /\ (Did("store_keychain") \/ Did("write_config")) =>
              IsCredentialRecord(input.download.v)
        /\ ~(Did("store_keychain") /\ Did("write_config"))
        /\ Did("write_config") =>
              ~(system \in {"Darwin", "Linux"} /\ input.store = "ok")
        /\ (IsCredentialRecord(input.download.v) /\ Did("download")) =>
              (Did("store_keychain") \/ Did("write_config"))
        /\ call.out = Return(Bool(TRUE)) => input.ping
        /\ (SourceBefore /\ ~input.force) =>
              /\ ~Did("download") /\ ~Did("store_keychain") /\ ~Did("open_config")
              /\ <<environ, keychain, configFile>> = call.before
              /\ call.out = Return(Bool(input.ping))

---------------------------------------------------------------------------
(* run_init, the orchestrator of `htan init`: one step up to the list of   *)
(* services to set up, one step for each service, one for the return.      *)

INIT_ORDER == <<"synapse", "portal", "bigquery", "gen3">>

ServiceNames == {INIT_ORDER[i] : i \in 1..Len(INIT_ORDER)}

\* services=None
NoServices == <<"None">>

\* The services argument: None, or a list of names in any order, with a
\* name twice, with a name that is no service.
ServiceLists ==
    {NoServices, <<>>, <<"portal">>, <<"gen3", "synapse">>,
     <<"portal", "synapse">>, <<"portal", "portal">>,
     <<"gen3", "bigquery", "portal", "synapse">>, <<"portal", "foo">>}

\* choice_map.get(choice.lower(), [])
ChoiceMap(choice) ==
    CASE choice = "1" -> <<"portal">>
      [] choice = "2" -> <<"synapse">>
      [] choice = "3" -> <<"bigquery">>
      [] choice = "4" -> <<"gen3">>
      [] choice \in {"a", "A"} -> INIT_ORDER
      [] OTHER -> <<>>

\* [s for s in services if s in INIT_ORDER]: the order of the request.
OrderedAsRequested(services) ==
    SelectSeq(services, LAMBDA s : s \in ServiceNames)

\* ordered = [s for s in INIT_ORDER if s in services]
Ordered(services) ==
    SelectSeq(INIT_ORDER,
              LAMBDA s : \E i \in 1..Len(services) : services[i] = s)

\* The arguments of run_init and what happens in it: choice is the answer
\* to the menu, status what show_status finds for every service, synapse
\* what _init_synapse returns (ok, and with or without a client), portal
\* how _init_portal ends, bigquery and gen3 what their steps return.
RunInitInputs ==
    [services : ServiceLists, force : BOOLEAN, non_interactive : BOOLEAN,
     status_only : BOOLEAN, choice : {"1", "2", "3", "4", "a", "A", "q", "x"},
     status : BOOLEAN,
     synapse : {<<TRUE, "client">>, <<TRUE, "None">>, <<FALSE, "None">>},
     portal : {"True", "False", "raise"},
     bigquery : BOOLEAN, gen3 : BOOLEAN]

\* results = {}
NoResults == [s \in {} |-> TRUE]

\* The call of run_init: the services still to set up, the results so far
\* and the Synapse client in hand.
RunInitCall(out, ordered, results, synapse_client) ==
    [op |-> "run_init", arg |-> input, out |-> out, ordered |-> ordered,
     results |-> results, synapse_client |-> synapse_client]

InitRunInit ==
    /\ FixedWorld
    /\ input \in RunInitInputs
    /\ client = NewClient
    /\ effects = <<>>
    /\ call = NoCall
    /\ disk = NoFile
    /\ pc = "idle"

\* show_status(): every service with whether it is configured
Current == [s \in ServiceNames |-> input.status]

\* results[svc] = ok
Put(results, svc, ok) ==
    [s \in DOMAIN results \cup {svc} |-> IF s = svc THEN ok ELSE results[s]]

\* run_init up to `for svc in ordered`
RunInit ==
    /\ pc = "idle"
    /\ LET services ==
               IF input.services # NoServices THEN input.services
               ELSE IF ~input.non_interactive THEN ChoiceMap(input.choice)
               ELSE INIT_ORDER
           quit == input.services = NoServices /\ ~input.non_interactive
                   /\ services = <<>>
       IN  IF input.status_only \/ quit
           THEN /\ pc' = "done"
                /\ call' = RunInitCall(Return(Current), <<>>, NoResults, "None")
           ELSE /\ pc' = "loop"
                /\ call' = RunInitCall(Return(None), Ordered(services),
                                       NoResults, "None")
    /\ effects' = <<Effect("show_status")>>
    /\ UNCHANGED <<environ, system, keychain, configFile, input, client, disk>>

\* One turn of `for svc in ordered`.
InitService ==
    /\ pc = "loop"
    /\ call.ordered # <<>>
    /\ LET svc == Head(call.ordered)
           rest == Tail(call.ordered) IN
       /\ effects' = Append(effects,
                            [kind |-> svc,
                             body |-> IF svc = "portal"
                                      THEN <<call.synapse_client>> ELSE <<>>])
       /\ IF svc = "synapse"
          THEN /\ call' = RunInitCall(call.out, rest,
                                      Put(call.results, svc, input.synapse[1]),
                                      input.synapse[2])
               /\ pc' = "loop"
          ELSE IF svc = "portal" /\ input.portal = "raise"
          THEN /\ call' = RunInitCall(Raise("TypeError"), rest, call.results,
                                      call.synapse_client)
               /\ pc' = "done"
          ELSE /\ call' = RunInitCall(call.out, rest,
                                      Put(call.results, svc,
                                          IF svc = "portal"
                                          THEN input.portal = "True"
                                          ELSE IF svc = "bigquery"
                                          THEN input.bigquery ELSE input.gen3),
                                      call.synapse_client)
               /\ pc' = "loop"
    /\ UNCHANGED <<environ, system, keychain, configFile, input, client, disk>>

\* return results
ReturnResults ==
    /\ pc = "loop"
    /\ call.ordered = <<>>
    /\ call' = RunInitCall(Return(call.results), <<>>, call.results,
                           call.synapse_client)
    /\ pc' = "done"
    /\ UNCHANGED <<environ, system, keychain, configFile, input, client,
                   effects, disk>>

NextRunInit ==
    \/ RunInit
    \/ InitService
    \/ ReturnResults

SpecRunInit == InitRunInit /\ [][NextRunInit]_vars

\* The services asked for: by the argument, by the menu, or all of them in
\* non-interactive mode.
Requested ==
    LET services ==
            IF input.services # NoServices THEN input.services
            ELSE IF ~input.non_interactive THEN ChoiceMap(input.choice)
            ELSE INIT_ORDER
    IN  {services[i] : i \in 1..Len(services)} \cap ServiceNames

\* The services set up so far, in the order of their steps.
Initialised ==
    SelectSeq([i \in 1..Len(effects) |-> effects[i].kind],
              LAMBDA k : k \in ServiceNames)

Position(svc) == CHOOSE i \in 1..Len(INIT_ORDER) : INIT_ORDER[i] = svc

\* The steps are in the fixed order, no service twice, none unrequested,
\* and the portal step has the client the synapse step returned.
InOrderOnceAndRequested ==
    /\ \A i, j \in 1..Len(Initialised) :
          i < j => Position(Initialised[i]) < Position(Initialised[j])
    /\ \A i \in 1..Len(Initialised) : Initialised[i] \in Requested
    /\ \A i \in 1..Len(effects) :
          effects[i].kind = "portal" =>
              effects[i].body =
                  <<IF "synapse" \in Requested THEN input.synapse[2] ELSE "None">>

RunInitReturned == pc = "done" /\ call.op = "run_init" /\ call.out.kind = "return"

\* C26 as it is stated: whenever run_init has returned, the requested
\* services were initialised in the fixed order, each exactly once, no
\* other, the synapse step before the portal step with its client handed
\* over, and the result has exactly one entry per requested service.
C26_EveryCallInitialisesTheRequested ==
    /\ call.op = "run_init" => InOrderOnceAndRequested
    /\ RunInitReturned =>
          /\ {Initialised[i] : i \in 1..Len(Initialised)} = Requested
          /\ DOMAIN call.out.value = Requested

\* C26, amended: the steps taken are always in the fixed order, each
\* service at most once, none unrequested, the synapse step before the
\* portal step with its client handed over; when run_init has returned
\* from a call that is not status-only and in which the menu was not quit,
\* every requested service was initialised and the result has exactly one
\* entry per requested service; a status-only call and a quit menu
\* initialise nothing and return the current status of all four services.
C26_InitialisesInFixedOrder ==
    /\ call.op = "run_init" => InOrderOnceAndRequested
    /\ RunInitReturned =>
          IF input.status_only
             \/ (input.services = NoServices /\ ~input.non_interactive
                 /\ Requested = {})
          THEN Initialised = <<>> /\ call.out.value = Current
          ELSE /\ {Initialised[i] : i \in 1..Len(Initialised)} = Requested
               /\ DOMAIN call.out.value = Requested

\* run_init has returned after setting up portal and synapse, asked for in
\* the other order.
C26_Witness ==
    /\ RunInitReturned
    /\ input.services = <<"portal", "synapse">>
    /\ Initialised = <<"synapse", "portal">>
    /\ DOMAIN call.out.value = {"synapse", "portal"}

---------------------------------------------------------------------------
(* _get_dependency_chain: the lookup of the start, then one step for each  *)
(* turn of `while queue`.  Names are written in lower case, as the keys of *)
(* comp_lookup are.                                                        *)

ComponentNames == {"a", "b", "c", "d"}

\* A name that is in no row of the table.
NotAComponent == <<"-">>

\* depends_on_components of a component: empty, known names, a name twice,
\* a name that is no component ("u").
DepLists ==
    {<<>>, <<"a">>, <<"b", "c">>, <<"d">>, <<"u", "b">>, <<"c", "c", "a">>}

\* comp_lookup: for every name its depends_on_components, if it is a
\* component.
ComponentTables == [ComponentNames -> DepLists \cup {NotAComponent}]

Known(table) == {k \in ComponentNames : table[k] # NotAComponent}

\* The call: the table, the name asked for, and the keys that have the name
\* as a substring.
ChainInputs ==
    [table : ComponentTables, name : {"a", "x"},
     matches : {{}, {"b"}, {"b", "c"}}]

\* queue.extend(deps) at the front, which makes the traversal depth-first.
EnqueueFirst(queue, deps) == deps \o queue

\* queue.append(dep_key) for every dependency not visited yet
Enqueue(queue, deps) == queue \o deps

\* A list as a value.
List(items) == [type |-> "list", keys |-> {}, id |-> 0, items |-> items]

ChainCall(out, chain, visited, queue) ==
    [op |-> "_get_dependency_chain", arg |-> input, out |-> out,
     chain |-> chain, visited |-> visited, queue |-> queue]

InitChain ==
    /\ FixedWorld
    /\ input \in ChainInputs
    /\ client = NewClient
    /\ effects = <<>>
    /\ call = NoCall
    /\ disk = NoFile
    /\ pc = "idle"

\* start_key: the name itself, or the one key that contains it
GetDependencyChain ==
    /\ pc = "idle"
    /\ LET known == Known(input.table)
           matches == input.matches \cap known IN
       IF input.name \in known
       THEN /\ call' = ChainCall(Return(None), <<>>, {}, <<input.name>>)
            /\ pc' = "while"
       ELSE IF Cardinality(matches) = 1
       THEN /\ call' = ChainCall(Return(None), <<>>, {},
                                 <<CHOOSE k \in matches : TRUE>>)
            /\ pc' = "while"
       ELSE /\ call' = ChainCall(Raise("ValueError"), <<>>, {}, <<>>)
            /\ pc' = "done"
    /\ UNCHANGED <<environ, system, keychain, configFile, input, client,
                   effects, disk>>

\* One turn of `while queue`.
WhileQueue ==
    /\ pc = "while"
    /\ call.queue # <<>>
    /\ LET current == Head(call.queue)
           queue == Tail(call.queue) IN
       IF current \in call.visited
       THEN call' = ChainCall(call.out, call.chain, call.visited, queue)
       ELSE LET visited == call.visited \cup {current} IN
            IF current \notin Known(input.table)
            THEN call' = ChainCall(call.out, call.chain, visited, queue)
            ELSE call' =
                   ChainCall(call.out,
                             Append(call.chain,
                                    [name |-> current,
                                     depends_on_components |->
                                         input.table[current]]),
                             visited,
                             Enqueue(queue,
                                     SelectSeq(input.table[current],
                                               LAMBDA d : d \notin visited)))
    /\ UNCHANGED <<environ, system, keychain, configFile, input, client,
                   effects, disk, pc>>

\* return chain
ReturnChain ==
    /\ pc = "while"
    /\ call.queue = <<>>
    /\ call' = ChainCall(Return(List(call.chain)), call.chain, call.visited,
                         <<>>)
    /\ pc' = "done"
    /\ UNCHANGED <<environ, system, keychain, configFile, input, client,
                   effects, disk>>

NextChain ==
    \/ GetDependencyChain
    \/ WhileQueue
    \/ ReturnChain

SpecChain == InitChain /\ [][NextChain]_vars

\* The loop is run as long as it can be.
SpecChainFair == SpecChain /\ WF_vars(NextChain)

\* The component the chain is asked for, when there is one.
Start ==
    IF input.name \in Known(input.table) THEN input.name
    ELSE CHOOSE k \in input.matches \cap Known(input.table) : TRUE

HasStart ==
    \/ input.name \in Known(input.table)
    \/ Cardinality(input.matches \cap Known(input.table)) = 1

\* The names within n references of the start.
RECURSIVE Within(_)
Within(n) ==
    IF n = 0 THEN {Start}
    ELSE LET w == Within(n - 1) IN
         w \cup UNION {{input.table[k][i] : i \in 1..Len(input.table[k])} :
                          k \in w \cap Known(input.table)}

Reachable == Within(Cardinality(ComponentNames)) \cap Known(input.table)

Distance(k) == CHOOSE n \in 0..Cardinality(ComponentNames) :
                   k \in Within(n) /\ \A m \in 0..(n - 1) : k \notin Within(m)

ChainReturned ==
    pc = "done" /\ call.op = "_get_dependency_chain" /\ call.out.kind = "return"

---------------------------------------------------------------------------
(* The cache files: files._download_mapping and model.download_model.      *)
(* disk is the cache file of the call; its content is the payload written. *)

CacheFile(state, content) == [state |-> state, bytes |-> 1, content |-> content]

\* The cache as an earlier run left it.
OldCache == CacheFile("old", "earlier")

\* What the server sends: for the mapping a JSON array, another JSON value,
\* text that is not JSON, bytes that are not UTF-8; for the model a CSV
\* with rows and an Attribute column, one without the column, one with a
\* header only, nothing, text the csv module rejects, bytes that are not
\* UTF-8.
MappingPayloads == {"array", "object", "number", "notjson", "notutf8"}

ModelPayloads ==
    {"rows", "no_attribute", "header_only", "empty", "csv_error", "notutf8"}

\* How a request ends: a body, URLError (no connection, HTTP error, bad
\* certificate), or an error while the body is read, which is no URLError.
Fetches == {"ok", "URLError", "IncompleteRead"}

CacheInputs ==
    [op : {"_download_mapping"}, force : BOOLEAN, dry_run : {FALSE},
     fetch : Fetches, retry : {"ok"}, payload : MappingPayloads]
    \cup [op : {"download_model"}, force : BOOLEAN, dry_run : BOOLEAN,
          fetch : Fetches, retry : Fetches, payload : ModelPayloads]

Cached(file, log, out) == [file |-> file, log |-> log, out |-> out]

\* json.loads(data) and the isinstance test
CheckMapping(payload) ==
    IF payload = "notutf8" THEN Raise("UnicodeDecodeError")
    ELSE IF payload = "array" THEN Return(None)
    ELSE Raise("SystemExit")

\* _download_mapping writing the payload before it is checked.
download_mapping_unchecked(force, fetch, payload, file) ==
    IF file.state # "missing" /\ ~force
    THEN Cached(file, <<>>, Return(Str(<<"CACHE_FILE">>)))
    ELSE IF fetch # "ok"
    THEN Cached(file, <<Effect("makedirs"), Request(<<>>)>>,
                Raise(IF fetch = "URLError" THEN "SystemExit" ELSE fetch))
    ELSE Cached(CacheFile("new", payload),
                <<Effect("makedirs"), Request(<<>>), Effect("write_cache")>>,
                IF CheckMapping(payload).kind = "raise"
                THEN CheckMapping(payload)
                ELSE Return(Str(<<"CACHE_FILE">>)))

\* files._download_mapping(force)
download_mapping(force, fetch, payload, file) ==
    IF file.state # "missing" /\ ~force
    THEN Cached(file, <<>>, Return(Str(<<"CACHE_FILE">>)))
    ELSE IF fetch # "ok"
    THEN Cached(file, <<Effect("makedirs"), Request(<<>>)>>,
                Raise(IF fetch = "URLError" THEN "SystemExit" ELSE fetch))
    ELSE IF CheckMapping(payload).kind = "raise"
    THEN Cached(file, <<Effect("makedirs"), Request(<<>>)>>,
                CheckMapping(payload))
    ELSE Cached(CacheFile("new", payload),
                <<Effect("makedirs"), Request(<<>>), Effect("write_cache")>>,
                Return(Str(<<"CACHE_FILE">>)))

\* data.decode("utf-8"), csv.DictReader, the tests of rows and fieldnames
CheckModel(payload) ==
    IF payload = "notutf8" THEN Raise("UnicodeDecodeError")
    ELSE IF payload = "rows" THEN Return(None)
    ELSE Raise("SystemExit")

\* model.download_model(tag, force, dry_run): a URLError of the first
\* request is followed by a second request without certificate checks.
download_model(force, dry_run, fetch, retry, payload, file) ==
    IF dry_run THEN Cached(file, <<>>, Return(None))
    ELSE IF file.state # "missing" /\ ~force
    THEN Cached(file, <<>>, Return(Str(<<"CACHE_FILE">>)))
    ELSE LET first == <<Effect("makedirs"), Request(<<>>)>>
             log == IF fetch = "URLError" THEN Append(first, Request(<<>>))
                    ELSE first
             got == IF fetch = "URLError" THEN retry ELSE fetch IN
         IF got # "ok"
         THEN Cached(file, log,
                     Raise(IF got = "URLError" THEN "SystemExit" ELSE got))
         ELSE IF CheckModel(payload).kind = "raise"
         THEN Cached(file, log, CheckModel(payload))
         ELSE Cached(CacheFile("new", payload),
                     Append(log, Effect("write_cache")),
                     Return(Str(<<"CACHE_FILE">>)))

InitCache ==
    /\ FixedWorld
    /\ input \in CacheInputs
    /\ client = NewClient
    /\ effects = <<>>
    /\ call = NoCall
    /\ disk \in {NoFile, OldCache}
    /\ pc = "idle"

Refreshed(r) ==
    /\ call' = [op |-> input.op, arg |-> input, out |-> r.out, before |-> disk]
    /\ disk' = r.file
    /\ effects' = r.log
    /\ pc' = "done"
    /\ UNCHANGED <<environ, system, keychain, configFile, input, client>>

DownloadMapping ==
    /\ pc = "idle"
    /\ input.op = "_download_mapping"
    /\ \E r \in {download_mapping(input.force, input.fetch, input.payload,
                                  disk)} : Refreshed(r)

DownloadModel ==
    /\ pc = "idle"
    /\ input.op = "download_model"
    /\ \E r \in {download_model(input.force, input.dry_run, input.fetch,
                                input.retry, input.payload, disk)} :
          Refreshed(r)

NextCache ==
    \/ DownloadMapping
    \/ DownloadModel

SpecCache == InitCache /\ [][NextCache]_vars

CacheCallDone ==
    pc = "done" /\ call.op \in {"_download_mapping", "download_model"}

\* The payload is what the check of the call accepts.
ValidPayload ==
    \/ call.op = "_download_mapping" /\ input.payload = "array"
    \/ call.op = "download_model" /\ input.payload = "rows"

\* A body arrived.
Fetched ==
    \/ input.fetch = "ok"
    \/ call.op = "download_model" /\ input.fetch = "URLError"
       /\ input.retry = "ok"

SentRequest == \E i \in 1..Len(effects) : effects[i].kind = "http"

---------------------------------------------------------------------------
(* One PortalClient over several operations, with the environment variable *)
(* changing between them.  input is the config argument of the             *)
(* constructor; effects is everything the client has done so far.          *)

MaxOps == 3

OpsDone == IF call = NoCall THEN 0 ELSE call.n

InitSession ==
    /\ environ \in {NoText} \cup {ValidRecord(n) : n \in 1..MaxCredId}
    /\ system = "Linux"
    /\ keychain = [run |-> "nonzero", stdout |-> NoText]
    /\ configFile = [state |-> "missing", content |-> NoText]
    /\ input \in {[config |-> None], [config |-> ValidRecord(MaxCredId).v]}
    /\ client = [config |-> input.config, database |-> None]
    /\ effects = <<>>
    /\ call = NoCall
    /\ disk = NoFile
    /\ pc = "idle"

Operation(op, arg, r) ==
    /\ OpsDone < MaxOps
    /\ call' = [op |-> op, arg |-> arg, out |-> r.out, n |-> OpsDone + 1]
    /\ client' = r.c
    /\ effects' = effects \o r.log
    /\ UNCHANGED <<world, input>>

\* PortalClient.list_tables
list_tables(c, found, resp) ==
    ClientRequest(c, <<>>, <<"SHOW TABLES">>, found, resp)

ClientQuery ==
    \E found \in DiscoveryResults, resp \in Responses :
        \E r \in {query(client, <<"SELECT", " ", "t">>, found, resp)} :
            Operation("query", <<"SELECT", " ", "t">>, r)

ClientListTables ==
    \E found \in DiscoveryResults, resp \in Responses :
        \E r \in {list_tables(client, found, resp)} :
            Operation("list_tables", <<>>, r)

ClientDescribeTable ==
    \E found \in [1..3 -> DiscoveryResults], resp \in Responses :
        \E r \in {describe_table(client, <<"files">>, found, resp, resp)} :
            Operation("describe_table", <<"files">>, r)

\* The environment variable is set, changed or unset between two operations.
SourcesChange ==
    /\ OpsDone < MaxOps
    /\ environ' \in ({NoText} \cup {ValidRecord(n) : n \in 1..MaxCredId}) \ {environ}
    /\ UNCHANGED <<system, keychain, configFile, input, client, effects, call,
                   disk, pc>>

NextSession ==
    \/ ClientQuery
    \/ ClientListTables
    \/ ClientDescribeTable
    \/ SourcesChange

SpecSession == InitSession /\ [][NextSession]_vars

\* The calls of load_portal_config so far.
Loads == SelectSeq(effects, LAMBDA x : x.kind = "load_portal_config")

ClientRequests == SelectSeq(effects, LAMBDA x : x.kind = "http")

SameRecord ==
    \A i, j \in 1..Len(ClientRequests) :
        ClientRequests[i].config = ClientRequests[j].config

\* C24 as it is stated: over any sequence of operations of one client
\* load_portal_config is called at most once, never when a config was
\* passed to the constructor, and every request uses the same record.
C24_LoadedAtMostOnce ==
    /\ Len(Loads) <= 1
    /\ input.config # None => Len(Loads) = 0
    /\ SameRecord

\* C24, amended: load_portal_config is never called when a config was
\* passed to the constructor; once a call of it has given the client its
\* record it is not called again and the record does not change, whatever
\* happens to the sources; a call that raised is made again by the next
\* operation; and every request of the client uses the same record.
C24_LoadedOnceResolved ==
    /\ [](/\ input.config # None => Len(Loads) = 0
          /\ SameRecord
          /\ \A i \in 1..Len(ClientRequests) :
                ClientRequests[i].config = client.config)
    /\ [][client.config # None =>
             /\ client'.config = client.config
             /\ Loads' = Loads]_vars
    /\ [][(client.config = None /\ OpsDone' # OpsDone) =>
             Len(Loads') = Len(Loads) + 1]_vars

\* The client has loaded its record once and sent two requests with it,
\* the later one after the environment variable was given another record.
C24_Witness ==
    /\ input.config = None
    /\ Len(Loads) = 1
    /\ Len(ClientRequests) >= 2
    /\ environ = ValidRecord(2)
    /\ client.config = ValidRecord(1).v
    /\ ClientRequests[Len(ClientRequests)].config = ValidRecord(1).v

\* The catalog queries of discover_database so far.
Discoveries ==
    SelectSeq(ClientRequests, LAMBDA x : x.body = normalize_sql(CatalogQuery))

Queries ==
    SelectSeq(ClientRequests, LAMBDA x : x.body # normalize_sql(CatalogQuery))

\* C25: over any sequence of operations of one client, whatever discovery
\* gives, discover_database is invoked at most once and all requests are
\* sent to the same database.
C25_DiscoveredAtMostOnce ==
    /\ Len(Discoveries) <= 1
    /\ \A i, j \in 1..Len(Queries) : Queries[i].database = Queries[j].database

---------------------------------------------------------------------------
(* cli_main of the portal CLI, with the handlers of the sql, describe and  *)
(* tables commands.  What is printed on stderr is an effect.               *)

Stderr(text) == [kind |-> "stderr", body |-> text]

\* raise PortalError(message) with no hints
PortalErrorOf(text) ==
    RaiseWith("PortalError", Message(text, 0, NoDetail, "", <<>>))

\* How the requests of a command end: a response, an HTTP error whose
\* message has a hint, an HTTP error with {"exception": null}, no
\* connection, a timeout.
CliOutcomes ==
    {Outcome("none", 200, Body("text", "absent", 1), ""),
     Outcome("HTTPError", 400,
             TextBody("object", "str", {"UNKNOWN_IDENTIFIER"}, {},
                      {"UNKNOWN_IDENTIFIER"}), ""),
     Outcome("HTTPError", 500, Body("object", "null", 1), ""),
     Outcome("URLError", 0, NoBody, "Connection refused"),
     Outcome("TimeoutError", 0, NoBody, "")}

\* The command line and what the server does: catalog is how the request
\* of discover_database ends, urlopen how the query ends, rows what the
\* response holds.
CliInputs ==
    [command : {"sql", "describe", "tables"},
     sql : {<<"SELECT", " ", "t">>, <<"DROP", " ", "t">>},
     table_name : {<<"files">>, <<"files", ";">>},
     database : {None, DbName(1)},
     dry_run : BOOLEAN,
     catalog : {Outcome("none", 200, Body("text", "absent", 1), ""),
                Outcome("URLError", 0, NoBody, "Connection refused")},
     urlopen : CliOutcomes,
     rows : {<<>>, <<[kind |-> "object", id |-> 1, pad |-> FALSE]>>,
             <<[kind |-> "text", id |-> 1, pad |-> FALSE]>>}]

InitCli ==
    /\ environ \in {NoText, ValidRecord(1)}
    /\ system = "Linux"
    /\ keychain = [run |-> "nonzero", stdout |-> NoText]
    /\ configFile = [state |-> "missing", content |-> NoText]
    /\ input \in CliInputs
    /\ client = NewClient
    /\ effects = <<>>
    /\ call = NoCall
    /\ disk = NoFile
    /\ pc = "idle"

\* database = args.database or discover_database()
ArgsDatabase(args) ==
    IF args.database # None THEN Ran(NewClient, <<>>, Return(args.database))
    ELSE discover_database(None, NoKey, args.catalog,
                           <<CatalogLine(<<"htan_", "2">>, FALSE)>>)

\* clickhouse_query(sql, database=database) and parse_json_rows(resp)
QueryRows(log, sql, args) ==
    Let(clickhouse_query(sql, 60, None, args.urlopen),
        LAMBDA r :
            IF r.out.kind = "raise" THEN Ran(NewClient, log \o r.log, r.out)
            ELSE Let(parse_json_rows(args.rows),
                     LAMBDA p :
                         Ran(NewClient, log \o r.log \o p.log,
                             IF p.out.kind = "raise"
                             THEN PortalErrorOf("ClickHouse returned non-JSON response:")
                             ELSE Return(List(p.out.value)))))

\* The rest of a handler once its text is made: the database, the dry run,
\* the query.
RunCommand(sql, args) ==
    Let(ArgsDatabase(args),
        LAMBDA d :
            IF d.out.kind = "raise" THEN d
            ELSE IF args.dry_run
            THEN Ran(NewClient, Append(d.log, Stderr(<<"SQL:">>)), Return(None))
            ELSE QueryRows(d.log, sql, args))

cmd_sql(args) ==
    IF ~validate_sql_safety(args.sql).safe
    THEN Ran(NewClient, <<>>, PortalErrorOf("Only read-only queries are allowed."))
    ELSE RunCommand(ensure_limit(args.sql, SQL_DEFAULT_LIMIT), args)

\* _cmd_describe; the row count is asked for when the schema has rows.
cmd_describe(args) ==
    IF validate_table_name(args.table_name).kind = "raise"
    THEN Ran(NewClient, <<>>, Raise("ValueError"))
    ELSE Let(RunCommand(<<"DESCRIBE ">> \o args.table_name, args),
             LAMBDA r :
                 IF r.out.kind = "raise" \/ args.dry_run THEN r
                 ELSE IF r.out.value.items = <<>>
                 THEN Ran(NewClient, Append(r.log, Stderr(<<"No schema found">>)),
                          Raise("SystemExit"))
                 ELSE QueryRows(r.log,
                                <<"SELECT count() as cnt FROM ">> \o args.table_name,
                                args))

cmd_tables(args) ==
    Let(ArgsDatabase(args),
        LAMBDA d :
            IF d.out.kind = "raise" THEN d
            ELSE IF args.dry_run
            THEN Ran(NewClient, Append(d.log, Stderr(<<"SQL:">>)), Return(None))
            ELSE Let(clickhouse_query(<<"SHOW TABLES">>, 60, None, args.urlopen),
                     LAMBDA r : Ran(NewClient, d.log \o r.log,
                                    IF r.out.kind = "raise" THEN r.out
                                    ELSE Return(None))))

\* The lines `Hint: ...` for the hints of a PortalError.
HintLines(hints) == [i \in 1..Len(hints) |-> Stderr(<<"Hint:", hints[i]>>)]

\* cli_main: the handler of the command, then `except PortalError` and
\* `except ValueError`.
cli_main(args) ==
    Let(CASE args.command = "sql" -> cmd_sql(args)
          [] args.command = "describe" -> cmd_describe(args)
          [] OTHER -> cmd_tables(args),
        LAMBDA r :
            IF r.out.kind = "raise" /\ IsInstance(r.out.exc, "PortalError")
            THEN Ran(NewClient,
                     Append(r.log, Stderr(<<"Error:">>)) \o HintLines(r.out.value.hints),
                     Raise("SystemExit"))
            ELSE IF r.out.kind = "raise" /\ IsInstance(r.out.exc, "ValueError")
            THEN Ran(NewClient, Append(r.log, Stderr(<<"Error:">>)),
                     Raise("SystemExit"))
            ELSE r)

CliMain ==
    /\ pc = "idle"
    /\ \E r \in {cli_main(input)} :
          /\ call' = [op |-> "cli_main", arg |-> input, out |-> r.out]
          /\ effects' = r.log
    /\ pc' = "done"
    /\ UNCHANGED <<environ, system, keychain, configFile, input, client, disk>>

NextCli == CliMain

SpecCli == InitCli /\ [][NextCli]_vars

\* The three kinds of error.
ValidationError ==
    \/ input.command = "sql" /\ ~PassesGate(input.sql)
    \/ input.command = "describe" /\ ~IsTableName(input.table_name)

CredentialError == ~ValidationError /\ ~EnvHoldsRecord

\* The query is sent and does not get a response.
TransportError ==
    /\ ~ValidationError
    /\ EnvHoldsRecord
    /\ ~input.dry_run
    /\ input.urlopen.exc # "none"

Printed(text) == \E i \in 1..Len(effects) : effects[i] = Stderr(text)

\* C30: a validation error, a credential error and a transport or server
\* error each end cli_main with "Error:" on stderr and exit status 1,
\* never with another exception; the hint of a server error is printed.
C30_EveryErrorExitsCleanly ==
    (call.op = "cli_main"
        /\ (ValidationError \/ CredentialError \/ TransportError)) =>
        /\ call.out.kind = "raise"
        /\ call.out.exc = "SystemExit"
        /\ Printed(<<"Error:">>)
        /\ (TransportError /\ input.urlopen.body.field = {"UNKNOWN_IDENTIFIER"})
              => Printed(<<"Hint:", "describe table">>)

====
